---- MODULE Spec2Model ----
(***************************************************************************)
(* Face-recognition attendance: the attendance capture pipeline of         *)
(* AttendanceSystem (cooldown gate, recognition decision, attendance       *)
(* store), the enrollment session of UserManagement (sample collection and *)
(* completion) and the quality scorer of FaceRecognitionEngine.            *)
(*                                                                         *)
(* Time is in milliseconds (Date.now()).  Distances and confidences are in *)
(* hundredths: distance 0.38 is 38, confidence 1 - 0.38 is 62, the         *)
(* recognition threshold 0.6 is 60.  Qualities are exact fractions, in      *)
(* units of 1 / (100 * referenceArea).                                     *)
(***************************************************************************)
EXTENDS Integers, Sequences, FiniteSets, TLC

(***************************************************************************)
(* Program constants                                                       *)
(***************************************************************************)
recognitionCooldown == 3000
recognitionThreshold == 60
requiredSamples == 5
qualityThreshold == 70
\* Face area of full size quality, in square pixels.
referenceArea == 40000
\* Hundredths: the weights of the four signals.
sizeWeight == 30
landmarkWeight == 20
expressionWeight == 20
confidenceWeight == 30
\* Hundredths: landmark quality with and without landmarks.
landmarksPresent == 80
landmarksAbsent == 30
\* Hundredths: expression quality without expressions, the factor of happy.
expressionDefault == 50
happyFactor == 80
\* Hundredths: the quality returned when the computation throws.
fallbackQuality == 50
\* validateEnrollmentQuality: the cutoffs of the four issues.
minScore == 80
minBoxSide == 100
minNeutral == 30

(***************************************************************************)
(* Bounds of the model                                                     *)
(***************************************************************************)
\* Date.now() when the page is loaded; far from the epoch, as wall clocks are.
EpochStart == 10000
\* The clock is followed for this many milliseconds.
MaxElapsed == 3000
\* Faces in one frame.
MaxFaces == 2
\* Attendance records followed in the store.
MaxRecords == 2
\* Invocations of captureEnrollmentSample that can be in flight.
MaxSampling == 2
\* Pending auto-complete timers and invocations of completeEnrollment.
MaxCompleting == 2
\* Distance the matcher reports for a face that is near no gallery entry.
FarDistance == 120
\* Executions of detectAndDisplayFaces that can be awaiting the detector.
MaxDetecting == 2
\* Users added by completeEnrollment that are followed in the store.
MaxEnrolled == 1

\* Amounts by which the clock advances between two steps.
TickAmounts == {1000, 2999}
\* Ids of the users in the store when the page is loaded.
UserIds == {1, 2}
\* Distance of a detected face to the gallery entry it is nearest to.
Distances == {38, 40, 45, 70}
\* Invocations of captureAttendance that can be in flight: the capture
\* button's click handler and the 'c' key handler.
Slots == {"button", "key"}
CompletingSlots == 1..MaxCompleting


NoUser == 0

VARIABLES
  clock,                \* Date.now()
  isActive,             \* AttendanceSystem.isActive
  currentDetections,    \* AttendanceSystem.currentDetections
  lastRecognitionTime,  \* AttendanceSystem.lastRecognitionTime
  users,                \* ids in the users store
  labeledDescriptors,   \* FaceRecognitionEngine.labeledDescriptors (labels)
  attendanceRecords,    \* the attendance store
  toast,                \* the last toast shown by captureAttendance
  pc,                   \* per invocation: where captureAttendance is suspended
  now,                  \* per invocation: the local `now`
  usersSnap,            \* per invocation: the local `users`
  bestMatch,            \* per invocation: the local `bestMatch`
  ret,                  \* per invocation: value returned by the latest call
  wrote,                \* per invocation: the latest call added a record
  detecting,            \* executions of detectAndDisplayFaces in flight
  deleting,             \* deleteUser: user whose gallery reload is pending
  lastAccept,           \* history: `now` of the latest accepted capture
  sessionAccepted       \* history: an acceptance was made in this session

attVars == <<clock, isActive, currentDetections, lastRecognitionTime, users,
             labeledDescriptors, attendanceRecords, toast, pc, now, usersSnap,
             bestMatch, ret, wrote, detecting, deleting, lastAccept, sessionAccepted>>

VARIABLES
  isEnrolling,          \* UserManagement.isEnrolling
  enrollmentSamples,    \* UserManagement.enrollmentSamples (the qualities)
  sampling,             \* invocations of captureEnrollmentSample awaiting detectFaces
  faces,                \* how many faces the latest detectFaces of a capture returned
  autoComplete,         \* pending setTimeout(() => this.completeEnrollment(), 1000)
  completing,           \* per invocation: where completeEnrollment is suspended
  enrolled,             \* the users added by completeEnrollment, their descriptors
  enrollToast           \* the last toast shown by UserManagement

enrVars == <<isEnrolling, enrollmentSamples, sampling, faces, autoComplete,
             completing, enrolled, enrollToast>>

VARIABLES
  probe,                \* a detection handed to the quality scorer
  probeQuality,         \* what calculateFaceQuality(probe) returned, once called
  probeValidation       \* what validateEnrollmentQuality(probe) returned, once called

quaVars == <<probe, probeQuality, probeValidation>>

VARIABLES
  userRows,             \* ids of the rows of the users store
  faceDescriptors,      \* rows of the faceDescriptors store: [id, userId]
  nextDescriptorId,     \* the autoIncrement key of the faceDescriptors store
  labeledFaceDescriptors, \* FaceRecognitionEngine.labeledDescriptors, entries
                        \* with their descriptors
  ops,                  \* per invocation of enrollFace or deleteUser: where it
                        \* is suspended, its userId, its local `descriptors`
  faceMatcher,          \* the gallery the FaceMatcher of the latest
                        \* recognizeFaces call was built from
  loaded                \* history: what the latest rebuild had read

galVars == <<userRows, faceDescriptors, nextDescriptorId, labeledFaceDescriptors,
             ops, faceMatcher, loaded>>

VARIABLES
  videoStream,          \* demo page: `videoStream`, 0 for null
  mediaTracks,          \* demo page: per stream acquired, the state of its track
  starting,             \* demo page: invocations of startCamera awaiting getUserMedia
  loadingMetadata,      \* demo page: videoFeed is loading a new srcObject
  disabled,             \* demo page: the `disabled` flags of the three buttons
  isScanning,           \* demo page: `isScanning`
  countdowns,           \* demo page: `count` of each running countdownInterval
  captureTimeouts,      \* demo page: pending setTimeout(..., 500) of a countdown
  capturedImage,        \* demo page: `capturedImage` is not null
  recognitionAttempts,  \* demo page: `recognitionAttempts`
  processing,           \* demo page: invocations of checkAttendance awaiting
                        \* simulateProcessing, each with the attempt it announced
  statusText,           \* demo page: the latest result shown by checkAttendance
  unloaded              \* demo page: beforeunload has been handled

demoVars == <<videoStream, mediaTracks, starting, loadingMetadata, disabled,
              isScanning, countdowns, captureTimeouts, capturedImage,
              recognitionAttempts, processing, statusText, unloaded>>

VARIABLES
  cancelled,            \* history, demo page: the countdownIntervals that ran
                        \* when cancelScanning acted and are not cleared yet
  attendanceCounted     \* history, demo page: attendanceCount increments since
                        \* the latest performCapture

demoHist == <<cancelled, attendanceCounted>>

VARIABLES
  stream,               \* AttendanceSystem.stream, 0 for null
  streamTracks,         \* per stream getUserMedia has returned, the state of its track
  initializing,         \* per invocation: where initialize() is suspended
  onloadedmetadata,     \* the invocation whose promise videoElement's handlers settle
  metadataLoading,      \* videoElement is loading a new srcObject
  detectionInterval,    \* AttendanceSystem.detectionInterval and whether it runs
  hidden,               \* document.hidden
  closed                \* beforeunload has been handled

camVars == <<stream, streamTracks, initializing, onloadedmetadata,
             metadataLoading, detectionInterval, hidden, closed>>

VARIABLES
  startUsers            \* history, per invocation of captureAttendance: the
                        \* ids in the users store when it started

VARIABLES
  manager,              \* which database manager `db` is
  dbUsers,              \* the users store: per id, the row
  nextUserId,           \* the key the users store issues next
  dbFaceDescriptors,    \* the faceDescriptors store: rows [id, userId]
  nextFaceDescriptorId, \* the key the faceDescriptors store issues next
  dbAttendance,         \* the attendance store: rows [id, userId]
  nextAttendanceId,     \* the key the attendance store issues next
  dbOps,                \* per invocation of updateUser, deleteUser or
                        \* completeEnrollment: where it is suspended, its locals
  recordedFor           \* history, per user id: calls of addAttendanceRecord
                        \* that have completed since the row was created

stoVars == <<manager, dbUsers, nextUserId, dbFaceDescriptors,
             nextFaceDescriptorId, dbAttendance, nextAttendanceId, dbOps,
             recordedFor>>

VARIABLES
  demoUsers,            \* demo app: `demoUsers`, the rows [id, email]
  demoRecords,          \* demo app: `attendanceRecords`, the rows [id, userId]
  demoSamples,          \* demo app: `enrollmentSamples`
  demoEnrolling,        \* demo app: `isEnrolling`
  demoCapturing,        \* demo app: invocations of captureAttendance that wait
  isSystemActive        \* demo app: `isSystemActive`

appVars == <<demoUsers, demoRecords, demoSamples, demoEnrolling, demoCapturing,
             isSystemActive>>

\* The variables of the parts other than attendance, enrollment and quality.
sideVars == <<galVars, demoVars, demoHist, camVars, startUsers, stoVars, appVars>>
\* What an action of the gallery leaves alone.
exceptGal == <<attVars, enrVars, quaVars, demoVars, demoHist, camVars,
               startUsers, stoVars, appVars>>
\* What an action of the demo page leaves alone.
exceptDemo == <<attVars, enrVars, quaVars, galVars, camVars, startUsers,
                stoVars, appVars>>
\* What an action on the database manager leaves alone.
exceptSto == <<attVars, enrVars, quaVars, galVars, demoVars, demoHist,
               camVars, startUsers, appVars>>
\* What an action of the demo app leaves alone.
exceptApp == <<attVars, enrVars, quaVars, galVars, demoVars, demoHist,
               camVars, startUsers, stoVars>>
\* What an action on the camera leaves alone, isActive and the history of
\* the session apart.
exceptCam == <<clock, currentDetections, lastRecognitionTime, users,
               labeledDescriptors, attendanceRecords, toast, pc, now,
               usersSnap, bestMatch, ret, wrote, detecting, deleting,
               lastAccept, enrVars, quaVars, galVars, demoVars, demoHist,
               startUsers, stoVars, appVars>>

vars == <<attVars, enrVars, quaVars, sideVars>>

(***************************************************************************)
(* Labels: user.id.toString() and Number.parseInt(label)                   *)
(***************************************************************************)
DigitChars == <<"0", "1", "2", "3", "4", "5", "6", "7", "8", "9">>

RECURSIVE toString(_)
toString(n) ==
  IF n < 10 THEN <<DigitChars[n + 1]>>
  ELSE toString(n \div 10) \o <<DigitChars[(n % 10) + 1]>>

DigitValue(c) == (CHOOSE i \in 1..10 : DigitChars[i] = c) - 1

RECURSIVE parseInt(_)
parseInt(s) ==
  IF Len(s) = 1 THEN DigitValue(s[1])
  ELSE 10 * parseInt(SubSeq(s, 1, Len(s) - 1)) + DigitValue(s[Len(s)])

UnknownLabel == <<"u", "n", "k", "n", "o", "w", "n">>

(***************************************************************************)
(* Detections and the matcher                                              *)
(***************************************************************************)
\* A detection's descriptor, given by the enrolled identity it is nearest to
\* and its distance to that identity's gallery entry.
Detection == [near : UserIds, dist : Distances]

\* Frames of at most n faces, near the users of ids at the distances of ds.
FramesOf(n, ids, ds) == UNION {[1..k -> [near : ids, dist : ds]] : k \in 0..n}

Frames == FramesOf(MaxFaces, UserIds, Distances)

\* One user, in front of the camera or not, enrolled or not.
GateFrames == FramesOf(1, {1}, {38, 70})

\* faceapi.FaceMatcher.matchDescriptor: the gallery entry of least distance.
MatchDescriptor(descriptor, gallery) ==
  IF \E i \in 1..Len(gallery) : gallery[i] = toString(descriptor.near)
  THEN [label |-> toString(descriptor.near), distance |-> descriptor.dist]
  ELSE [label |-> gallery[1], distance |-> FarDistance]

\* faceapi.FaceMatcher.findBestMatch with distanceThreshold = recognitionThreshold.
FindBestMatch(descriptor, gallery) ==
  LET m == MatchDescriptor(descriptor, gallery)
  IN  IF m.distance < recognitionThreshold
      THEN m
      ELSE [label |-> UnknownLabel, distance |-> m.distance]

\* One entry of recognizeFaces' results.
RecognitionResult(detections, i, gallery, t) ==
  LET match == FindBestMatch(detections[i], gallery)
  IN  [detection  |-> i,
       timestamp  |-> t,
       confidence |-> 100 - match.distance,
       isMatch    |-> match.label # UnknownLabel,
       userId     |-> IF match.label # UnknownLabel
                      THEN parseInt(match.label) ELSE NoUser]

\* A comparator that sorts by rising confidence.
CompareConfidenceRising(a, b) == a.confidence - b.confidence

\* The comparator (a, b) => b.confidence - a.confidence.
CompareConfidence(a, b) == b.confidence - a.confidence

\* Array.prototype.sort is stable: an element goes behind every element
\* already placed that the comparator does not put after it.
RECURSIVE InsertSorted(_, _)
InsertSorted(r, s) ==
  IF s = <<>> THEN <<r>>
  ELSE IF CompareConfidence(Head(s), r) <= 0
       THEN <<Head(s)>> \o InsertSorted(r, Tail(s))
       ELSE <<r>> \o s

RECURSIVE SortByConfidence(_)
SortByConfidence(s) ==
  IF s = <<>> THEN <<>>
  ELSE InsertSorted(s[Len(s)], SortByConfidence(SubSeq(s, 1, Len(s) - 1)))

\* FaceRecognitionEngine.recognizeFaces (the engine is initialized).
RecognizeFaces(detections, gallery, t) ==
  IF Len(gallery) = 0 THEN <<>>
  ELSE SortByConfidence([i \in 1..Len(detections) |->
                           RecognitionResult(detections, i, gallery, t)])

\* A filter that forgets the confidence threshold.
IsEligibleAnyConfidence(result) == result.isMatch

\* A filter that asks for 0.1 more after an attempt that was not recognized.
IsEligiblePenalized(result) ==
  /\ result.isMatch
  /\ result.confidence >= recognitionThreshold
                             + (IF toast.kind = "notRecognized" THEN 10 ELSE 0)

\* The filter of captureAttendance.
IsEligible(result) ==
  result.isMatch /\ result.confidence >= recognitionThreshold

\* recognitionResults.filter(...).sort(...)
EligibleSorted(results) == SortByConfidence(SelectSeq(results, IsEligible))

\* Math.floor(ms / 1000)
FloorSeconds(ms) == ms \div 1000

\* Math.ceil(ms / 1000)
CeilSeconds(ms) == (ms + 999) \div 1000

\* loadFaceDescriptors: one labeled entry per user of the store, in key order.
RECURSIVE GalleryOf(_)
GalleryOf(ids) ==
  IF ids = {} THEN <<>>
  ELSE LET least == CHOOSE u \in ids : \A v \in ids : u <= v
       IN  <<toString(least)>> \o GalleryOf(ids \ {least})

(***************************************************************************)
(* Quality scoring.  A quality is in units of 1 / (100 * referenceArea), so *)
(* that the weighted sum of line 176 is exact: 1.0 is QualityOne, a value   *)
(* of h hundredths is h * referenceArea.                                    *)
(***************************************************************************)
\* A property that is undefined, and one that holds v.
Undefined == <<>>
Some(v) == <<v>>

\* The number NaN; every comparison with it is false.
NaN == -1
\* A TypeError raised by reading a property of undefined.
TypeError == -2

Min(a, b) == IF a < b THEN a ELSE b
Max(a, b) == IF a > b THEN a ELSE b

QualityOne == 100 * referenceArea
Hundredths(h) == h * referenceArea

\* A signal of h hundredths, in units of 1 / referenceArea.
Signal(h) == h * (referenceArea \div 100)

\* Lines 156-157: detection.detection.box and faceBox.width throw when
\* detection.detection or the box is undefined.
QualityThrows(d) ==
  \/ d.detection = Undefined
  \/ d.detection[1].box = Undefined

\* Lines 156-158: Math.min(faceArea / 40000, 1).
SizeQuality(d) ==
  LET faceBox == d.detection[1].box[1]
      faceArea == faceBox.width * faceBox.height
  IN  Min(faceArea, referenceArea)

\* A scorer that never sees landmarks.
LandmarkQualityBlind(d) == Signal(landmarksAbsent)

\* Line 161: landmarks ? 0.8 : 0.3.
LandmarkQuality(d) ==
  Signal(IF d.landmarks THEN landmarksPresent ELSE landmarksAbsent)

\* Lines 164-169: Math.max(neutral, happy * 0.8), 0.5 without expressions.
ExpressionQuality(d) ==
  IF d.expressions = Undefined THEN Signal(expressionDefault)
  ELSE LET neutral == d.expressions[1].neutral
           happy == d.expressions[1].happy
       IN  Max(Signal(neutral), (Signal(happy) * happyFactor) \div 100)

\* Lines 172-176: the weighted sum; undefined * 0.3 is NaN.
OverallQuality(d) ==
  LET confidenceQuality == d.detection[1].score
  IN  IF confidenceQuality = Undefined THEN NaN
      ELSE SizeQuality(d) * sizeWeight
           + LandmarkQuality(d) * landmarkWeight
           + ExpressionQuality(d) * expressionWeight
           + Signal(confidenceQuality[1]) * confidenceWeight

\* Line 178: Math.min(Math.max(overallQuality, 0), 1).
Clamp(x) == IF x = NaN THEN NaN ELSE Min(Max(x, 0), QualityOne)

\* A scorer without the catch clause.
calculateFaceQualityUncaught(detection) ==
  IF QualityThrows(detection) THEN TypeError
  ELSE Clamp(OverallQuality(detection))

\* FaceRecognitionEngine.calculateFaceQuality.
calculateFaceQuality(detection) ==
  IF QualityThrows(detection) THEN Hundredths(fallbackQuality)
  ELSE Clamp(OverallQuality(detection))

\* A validity test that accepts every number.
IsValidQualityAny(quality) == quality # NaN

\* Line 218: quality >= this.qualityThreshold.
IsValidQuality(quality) ==
  quality # NaN /\ quality >= Hundredths(qualityThreshold)

\* Line 223: quality < this.qualityThreshold.
IsLowQuality(quality) ==
  quality # NaN /\ quality < Hundredths(qualityThreshold)

\* Lines 224-242: the issues pushed, in the order of the code.
Issues(d) ==
  LET score == d.detection[1].score
      faceBox == d.detection[1].box[1]
  IN  (IF score # Undefined /\ score[1] < minScore
       THEN <<"Low face detection confidence">> ELSE <<>>)
      \o (IF faceBox.width < minBoxSide \/ faceBox.height < minBoxSide
          THEN <<"Face too small - move closer to camera">> ELSE <<>>)
      \o (IF ~d.landmarks
          THEN <<"Face landmarks not detected clearly">> ELSE <<>>)
      \o (IF d.expressions # Undefined /\ d.expressions[1].neutral < minNeutral
          THEN <<"Please maintain a neutral expression">> ELSE <<>>)

\* FaceRecognitionEngine.validateEnrollmentQuality.  Lines 224 and 228-229
\* read detection.detection.score and faceBox.width outside any try: with a
\* low quality and no box the call throws.
validateEnrollmentQuality(detection) ==
  LET quality == calculateFaceQuality(detection)
  IN  IF IsLowQuality(quality) /\ QualityThrows(detection)
      THEN [threw |-> TRUE, isValid |-> FALSE, quality |-> quality, issues |-> <<>>]
      ELSE [threw   |-> FALSE,
            isValid |-> IsValidQuality(quality),
            quality |-> quality,
            issues  |-> IF IsLowQuality(quality) THEN Issues(detection) ELSE <<>>]

\* Detections handed to the scorer: every field present or undefined.
ProbeScores == {Undefined, Some(60), Some(80), Some(85), Some(100)}
ProbeBoxes ==
  {Undefined} \cup {Some(b) : b \in [width : {80, 100, 120, 200}, height : {100, 200, 250}]}
ProbeExpressions ==
  {Undefined} \cup {Some(e) : e \in [neutral : {0, 30, 50, 100}, happy : {0, 100}]}
ProbeDetections ==
  [detection   : {Undefined} \cup {Some(f) : f \in [box : ProbeBoxes, score : ProbeScores]},
   landmarks   : BOOLEAN,
   expressions : ProbeExpressions]

\* A detection as the detector returns it.
Face(score, width, height, landmarks, neutral, happy) ==
  [detection   |-> Some([box |-> Some([width |-> width, height |-> height]),
                         score |-> Some(score)]),
   landmarks   |-> landmarks,
   expressions |-> Some([neutral |-> neutral, happy |-> happy])]

\* The single faces the detector returns during enrollment: of quality
\* 0.70, 0.535 (no issue applies) and 0.384.
EnrollDetections ==
  {Face(60, 200, 200, TRUE, 30, 0),
   Face(80, 100, 100, TRUE, 30, 0),
   Face(60, 80, 100, FALSE, 0, 0)}

\* What detectFaces returns during enrollment: no face, one face, or two
\* faces of which the first is of valid quality.
EnrollFrames ==
  {<<>>} \cup {<<d>> : d \in EnrollDetections}
         \cup {<<Face(60, 200, 200, TRUE, 30, 0), Face(60, 80, 100, FALSE, 0, 0)>>}

\* A detection with no box, no score, no landmarks and no expressions.
NoFields == [detection |-> Undefined, landmarks |-> FALSE, expressions |-> Undefined]

\* What the detector returns: box, score and expressions are present.
WellFormed(d) ==
  /\ d.detection # Undefined
  /\ d.detection[1].box # Undefined
  /\ d.detection[1].score # Undefined
  /\ d.expressions # Undefined

NoMatch == [detection |-> 0, timestamp |-> 0, confidence |-> 0, isMatch |-> FALSE, userId |-> NoUser]
NoToast == [kind |-> "none", remaining |-> 0]

\* this.showToast(...) of UserManagement: the kind of message and the count
\* it tells (the samples still needed, the issues of a low quality).
EnrollToast(kind, count) == [kind |-> kind, count |-> count]

\* An invocation of completeEnrollment that is not under way.
NotCompleting ==
  [pc |-> "idle", userId |-> NoUser, index |-> 0, count |-> 0, alias |-> FALSE]

(***************************************************************************)
(* The gallery: FaceRecognitionEngine.loadFaceDescriptors                  *)
(***************************************************************************)
\* Invocations of enrollFace and deleteUser that can be in flight.
MaxOps == 2
\* Keys the faceDescriptors store hands out.
MaxStored == 3

OpSlots == 1..MaxOps

\* The rows db.getAllUsers() resolves to: store.getAll() yields them by key.
RECURSIVE getAllUsers(_)
getAllUsers(rows) ==
  IF rows = {} THEN <<>>
  ELSE LET least == CHOOSE id \in rows : \A other \in rows : id <= other
       IN  <<least>> \o getAllUsers(rows \ {least})

\* new faceapi.LabeledFaceDescriptors(label, descriptors)
LabeledFaceDescriptors(label, descriptors) ==
  [label |-> label, descriptors |-> descriptors]

\* A gallery that takes an entry for every user.
HasDescriptorsAlways(userDescriptors) == TRUE

\* Line 74: userDescriptors.length > 0
HasDescriptors(userDescriptors) == Cardinality(userDescriptors) > 0

\* Lines 71-79: the loop over the users, from an emptied gallery.
RECURSIVE PushLabeled(_, _)
PushLabeled(rows, descriptors) ==
  IF rows = <<>> THEN <<>>
  ELSE LET userDescriptors == {d \in descriptors : d.userId = Head(rows)}
           rest == PushLabeled(Tail(rows), descriptors)
       IN  IF HasDescriptors(userDescriptors)
           THEN <<LabeledFaceDescriptors(toString(Head(rows)),
                                         {d.id : d \in userDescriptors})>> \o rest
           ELSE rest

\* Lines 69-79: the gallery a rebuild leaves, given what it has read.
Rebuilt(descriptors, rows) == PushLabeled(getAllUsers(rows), descriptors)

\* The length of a face descriptor (part_004 line 192).
descriptorLength == 128
\* The faceDescriptor argument of enrollFace: missing, or an array of some
\* length.
FaceDescriptors == {Undefined, Some(0), Some(descriptorLength - 1), Some(descriptorLength)}

\* An enrollFace that takes an array of any length.
ValidDescriptorAnyLength(faceDescriptor) == faceDescriptor # Undefined

\* Line 192, negated: !faceDescriptor || faceDescriptor.length !== 128.
ValidDescriptor(faceDescriptor) ==
  /\ faceDescriptor # Undefined
  /\ faceDescriptor[1] = descriptorLength

\* An invocation that has called loadFaceDescriptors(), which takes no
\* argument and awaits db.getFaceDescriptors() (line 66).
LoadFaceDescriptors ==
  [pc |-> "getFaceDescriptors", userId |-> NoUser, descriptors |-> {},
   faceDescriptor |-> <<>>]

\* An invocation slot that holds no invocation.
NoOp == [pc |-> "idle", userId |-> NoUser, descriptors |-> {},
         faceDescriptor |-> <<>>]

\* The store when the page is loaded: user 1 is enrolled with one descriptor,
\* user 2 has a row and no descriptor; the engine's initialize() has loaded
\* the gallery (line 51).
GalleryInit ==
  /\ userRows = UserIds
  /\ faceDescriptors = {[id |-> 1, userId |-> 1]}
  /\ nextDescriptorId = 2
  /\ labeledFaceDescriptors = Rebuilt({[id |-> 1, userId |-> 1]}, UserIds)
  /\ ops = [o \in OpSlots |-> NoOp]
  /\ faceMatcher = Undefined
  /\ loaded = [descriptors |-> {[id |-> 1, userId |-> 1]}, users |-> UserIds]

(***************************************************************************)
(* The demo page (enhanced-script.js)                                      *)
(***************************************************************************)
MAX_ATTEMPTS == 3
\* Lines 291-293, in hundredths.
baseSuccessRate == 70
attemptPenaltyStep == 10
leastSuccessRate == 30
\* `let count = 3` of startCountdown.
countdownFrom == 3

\* Streams the demo page acquires.
MaxStreams == 2
\* Countdown intervals and their timeouts that are pending at a time.
MaxCountdowns == 2
\* Invocations of checkAttendance that wait at a time.
MaxProcessing == 4

CountdownSlots == 1..MaxCountdowns
\* A slot of `countdowns` that holds no interval.
Cleared == -1
\* Values of Math.random(), in hundredths.
Randoms == {25, 45, 65, 85}

\* updateButtonStates(): the `disabled` flags of lines 427-429.
ButtonStates(video, image, scanning) ==
  [start   |-> video # 0,
   capture |-> video = 0 \/ scanning,
   check   |-> ~image \/ scanning]

\* Lines 291-293: Math.max(0.3, baseSuccessRate - attemptPenalty).
SuccessRate(attempts) ==
  Max(leastSuccessRate, baseSuccessRate - (attempts - 1) * attemptPenaltyStep)

\* stream.getTracks().forEach((track) => track.stop())
StopTracks(tracks, video) == [tracks EXCEPT ![video] = "ended"]

\* track.enabled = flag, which a track that has ended ignores.
EnableTracks(tracks, video, flag) ==
  [tracks EXCEPT ![video] = IF @ = "ended" THEN @
                             ELSE IF flag THEN "live" ELSE "disabled"]

\* The page after DOMContentLoaded (lines 1-6 and 56-59).
DemoInit ==
  /\ videoStream = 0
  /\ mediaTracks = <<>>
  /\ starting = 0
  /\ loadingMetadata = FALSE
  /\ disabled = ButtonStates(0, FALSE, FALSE)
  /\ isScanning = FALSE
  /\ countdowns = [k \in CountdownSlots |-> Cleared]
  /\ captureTimeouts = 0
  /\ capturedImage = FALSE
  /\ recognitionAttempts = 0
  /\ processing = <<>>
  /\ statusText = "none"
  /\ unloaded = FALSE
  /\ cancelled = {}
  /\ attendanceCounted = 0

(***************************************************************************)
(* The camera of the AttendanceSystem                                      *)
(***************************************************************************)
\* Invocations of initialize() that can be in flight.
MaxInitializing == 2
\* Streams getUserMedia returns to the AttendanceSystem.
MaxAcquired == 2

InitSlots == 1..MaxInitializing

\* stream.getTracks().forEach((track) => track.stop())
StopStream(tracks, id) ==
  IF id = 0 THEN tracks ELSE [tracks EXCEPT ![id] = "stopped"]

\* The constructor (part_001 lines 6-18) and a visible page.
CameraInit ==
  /\ stream = 0
  /\ streamTracks = <<>>
  /\ initializing = [i \in InitSlots |-> "idle"]
  /\ onloadedmetadata = 0
  /\ metadataLoading = FALSE
  /\ detectionInterval = "null"
  /\ hidden = FALSE
  /\ closed = FALSE

(***************************************************************************)
(* The database manager (part_002)                                         *)
(***************************************************************************)
\* Keys the users store issues.
MaxRows == 2
\* Keys the faceDescriptors store issues.
MaxFaceRows == 1
\* Keys the attendance store issues.
MaxAttendance == 2
\* Invocations of updateUser, deleteUser and completeEnrollment in flight.
MaxDbOps == 2

DbSlots == 1..MaxDbOps
RowIds == 1..MaxRows
\* What the form's userEmail field holds when completeEnrollment reads it.
Emails == {"ann@company.com", "bob@company.com"}

\* addUser, lines 93-100 and 451-459: the row stored for userData.
NewUser(email) == [email |-> email, name |-> "Ann", totalAttendance |-> 0]

\* updateUser, lines 143-147 and 478-482: {...user, ...updates}, with the
\* updates of editUser (part_000 line 324).
UpdatedUser(row) == [row EXCEPT !.name = "Anna"]

\* existingUsers.some((user) => user.email === userData.email), part_000
\* line 161.
EmailExists(rows, email) == \E id \in DOMAIN rows : rows[id].email = email

\* The unique index "email" of the users store (line 46): a row stored
\* under `id` would share its email with another row.
ConstraintError(rows, id, email) ==
  \E other \in DOMAIN rows : other # id /\ rows[other].email = email

\* The rows of a store without user `id`.
WithoutUser(rows, id) == {r \in rows : r.userId # id}

\* The users store with the row `row` under `id`.
PutUser(rows, id, row) ==
  [k \in DOMAIN rows \cup {id} |-> IF k = id THEN row ELSE rows[k]]

\* The users store without the row of `id`.
RemoveUser(rows, id) == [k \in DOMAIN rows \ {id} |-> rows[k]]

\* A slot of dbOps that holds no invocation.
NoDbOp == [pc |-> "idle", id |-> NoUser, row |-> <<>>, email |-> ""]

\* The constructor of the manager (lines 434-444) or a database that has
\* just been created (lines 36-80): every store is empty.
StoreInit ==
  /\ dbUsers = <<>>
  /\ nextUserId = 1
  /\ dbFaceDescriptors = {}
  /\ nextFaceDescriptorId = 1
  /\ dbAttendance = {}
  /\ nextAttendanceId = 1
  /\ dbOps = [o \in DbSlots |-> NoDbOp]
  /\ recordedFor = [id \in RowIds |-> 0]

(***************************************************************************)
(* The demo app (part_003): its in-memory store                            *)
(***************************************************************************)
\* Samples completeEnrollment asks for (lines 443, 466).
demoRequiredSamples == 5

\* Rows followed in demoUsers.
MaxDemoUsers == 4
\* Rows followed in attendanceRecords.
MaxDemoRecords == 3
\* Invocations of captureAttendance that wait at a time.
MaxDemoCapturing == 2

\* What the form's userEmail field holds when completeEnrollment reads it.
DemoEmails == {"ann@company.com", "john.doe@company.com"}

\* Lines 14-45 and 47-60: the rows the script starts with.
AppInit ==
  /\ demoUsers = <<[id |-> 1, email |-> "john.doe@company.com"],
                   [id |-> 2, email |-> "jane.smith@company.com"],
                   [id |-> 3, email |-> "mike.johnson@company.com"]>>
  /\ demoRecords = <<[id |-> 1, userId |-> 1], [id |-> 2, userId |-> 2]>>
  /\ demoSamples = 0
  /\ demoEnrolling = FALSE
  /\ demoCapturing = 0
  /\ isSystemActive = FALSE

SideInit ==
  /\ GalleryInit
  /\ DemoInit
  /\ CameraInit
  /\ startUsers = [p \in Slots |-> UserIds]
  /\ StoreInit
  /\ AppInit

Constructed ==
  /\ clock = EpochStart
  /\ isActive = FALSE
  /\ currentDetections = <<>>
  /\ lastRecognitionTime = 0
  /\ users = UserIds
  /\ labeledDescriptors = GalleryOf(UserIds)
  /\ attendanceRecords = <<>>
  /\ toast = NoToast
  /\ pc = [p \in Slots |-> "idle"]
  /\ now = [p \in Slots |-> 0]
  /\ usersSnap = [p \in Slots |-> {}]
  /\ bestMatch = [p \in Slots |-> NoMatch]
  /\ ret = [p \in Slots |-> "none"]
  /\ wrote = [p \in Slots |-> FALSE]
  /\ detecting = 0
  /\ deleting = NoUser
  /\ lastAccept = 0
  /\ sessionAccepted = FALSE
  /\ isEnrolling = FALSE
  /\ enrollmentSamples = <<>>
  /\ sampling = 0
  /\ autoComplete = 0
  /\ completing = [c \in CompletingSlots |-> NotCompleting]
  /\ faces = Undefined
  /\ enrolled = <<>>
  /\ enrollToast = EnrollToast("none", 0)
  /\ probe = NoFields
  /\ probeQuality = Undefined
  /\ probeValidation = Undefined
  /\ SideInit

\* The page is loaded with the production manager as `db` (part_002 line 426).
Init == Constructed /\ manager = "DatabaseManager"

(***************************************************************************)
(* The clock                                                               *)
(***************************************************************************)
Tick(d) ==
  /\ clock + d <= EpochStart + MaxElapsed
  /\ clock' = clock + d
  /\ UNCHANGED <<isActive, currentDetections, lastRecognitionTime, users,
                 labeledDescriptors, attendanceRecords, toast, pc, now,
                 usersSnap, bestMatch, ret, wrote, detecting, deleting,
                 lastAccept, sessionAccepted>>
  /\ UNCHANGED <<enrVars, quaVars, sideVars>>

(***************************************************************************)
(* AttendanceSystem.initialize, stop and the detection loop                *)
(***************************************************************************)
\* initialize(): camera started, detection loop started, isActive = true.
\* The start button and the 'i' key are enabled only while not active.
Initialize ==
  /\ ~isActive
  /\ isActive' = TRUE
  /\ sessionAccepted' = FALSE
  /\ UNCHANGED <<clock, currentDetections, lastRecognitionTime, users,
                 labeledDescriptors, attendanceRecords, toast, pc, now,
                 usersSnap, bestMatch, ret, wrote, detecting, deleting,
                 lastAccept>>
  /\ UNCHANGED <<enrVars, quaVars, sideVars>>

\* stop(): isActive = false, interval cleared, stream released.
Stop ==
  /\ isActive
  /\ isActive' = FALSE
  /\ sessionAccepted' = FALSE
  /\ UNCHANGED <<clock, currentDetections, lastRecognitionTime, users,
                 labeledDescriptors, attendanceRecords, toast, pc, now,
                 usersSnap, bestMatch, ret, wrote, detecting, deleting,
                 lastAccept>>
  /\ UNCHANGED <<enrVars, quaVars, sideVars>>

\* An interval tick: detectAndDisplayFaces calls the detector and suspends.
DetectStart ==
  /\ isActive
  /\ detecting < MaxDetecting
  /\ detecting' = detecting + 1
  /\ UNCHANGED <<clock, isActive, currentDetections, lastRecognitionTime,
                 users, labeledDescriptors, attendanceRecords, toast, pc, now,
                 usersSnap, bestMatch, ret, wrote, deleting, lastAccept,
                 sessionAccepted>>
  /\ UNCHANGED <<enrVars, quaVars, sideVars>>

\* The detector resolves: this.currentDetections = detections.
DetectFinish(frame) ==
  /\ detecting > 0
  /\ detecting' = detecting - 1
  /\ currentDetections' = frame
  /\ UNCHANGED <<clock, isActive, lastRecognitionTime, users,
                 labeledDescriptors, attendanceRecords, toast, pc, now,
                 usersSnap, bestMatch, ret, wrote, deleting, lastAccept,
                 sessionAccepted>>
  /\ UNCHANGED <<enrVars, quaVars, sideVars>>

(***************************************************************************)
(* UserManagement.deleteUser                                               *)
(***************************************************************************)
\* db.deleteUser(userId) has resolved; the gallery reload is still to come.
DeleteUser(u) ==
  /\ deleting = NoUser
  /\ u \in users
  /\ users' = users \ {u}
  /\ deleting' = u
  /\ UNCHANGED <<clock, isActive, currentDetections, lastRecognitionTime,
                 labeledDescriptors, attendanceRecords, toast, pc, now,
                 usersSnap, bestMatch, ret, wrote, detecting, lastAccept,
                 sessionAccepted>>
  /\ UNCHANGED <<enrVars, quaVars, sideVars>>

\* faceEngine.loadFaceDescriptors() at the end of deleteUser.
ReloadGallery ==
  /\ deleting # NoUser
  /\ labeledDescriptors' = GalleryOf(users)
  /\ deleting' = NoUser
  /\ UNCHANGED <<clock, isActive, currentDetections, lastRecognitionTime,
                 users, attendanceRecords, toast, pc, now, usersSnap,
                 bestMatch, ret, wrote, detecting, lastAccept,
                 sessionAccepted>>
  /\ UNCHANGED <<enrVars, quaVars, sideVars>>

(***************************************************************************)
(* AttendanceSystem.captureAttendance                                      *)
(***************************************************************************)
InFlight(p) == pc[p] # "idle"

\* The call returns `value` without having suspended.
ReturnAtOnce(p, value) ==
  /\ ret' = [ret EXCEPT ![p] = value]
  /\ wrote' = [wrote EXCEPT ![p] = FALSE]
  /\ UNCHANGED <<pc, now, usersSnap, bestMatch>>

\* A suspended call returns `value`.
Return(p, value) ==
  /\ pc' = [pc EXCEPT ![p] = "idle"]
  /\ ret' = [ret EXCEPT ![p] = value]
  /\ now' = [now EXCEPT ![p] = 0]
  /\ usersSnap' = [usersSnap EXCEPT ![p] = {}]
  /\ bestMatch' = [bestMatch EXCEPT ![p] = NoMatch]

\* Lines 123-126: not active or no detections.
CaptureNoFaces(p) ==
  /\ pc[p] = "idle"
  /\ ~isActive \/ Len(currentDetections) = 0
  /\ toast' = [kind |-> "noFaces", remaining |-> 0]
  /\ ReturnAtOnce(p, "false")
  /\ UNCHANGED <<clock, isActive, currentDetections, lastRecognitionTime,
                 users, labeledDescriptors, attendanceRecords, detecting,
                 deleting, lastAccept, sessionAccepted>>
  /\ UNCHANGED <<enrVars, quaVars, sideVars>>

\* A gate that still denies when exactly the cooldown has elapsed.
InCooldownInclusive(t) == t - lastRecognitionTime <= recognitionCooldown

\* The cooldown gate of line 130.
InCooldown(t) == t - lastRecognitionTime < recognitionCooldown

\* `remaining` of line 131.
Remaining(t) == CeilSeconds(recognitionCooldown - (t - lastRecognitionTime))

\* Lines 128-134: denied by the cooldown gate.
CaptureCooldown(p) ==
  /\ pc[p] = "idle"
  /\ isActive /\ Len(currentDetections) # 0
  /\ InCooldown(clock)
  /\ toast' = [kind |-> "wait", remaining |-> Remaining(clock)]
  /\ ReturnAtOnce(p, "false")
  /\ UNCHANGED <<clock, isActive, currentDetections, lastRecognitionTime,
                 users, labeledDescriptors, attendanceRecords, detecting,
                 deleting, lastAccept, sessionAccepted>>
  /\ UNCHANGED <<enrVars, quaVars, sideVars>>

\* Lines 136-140: the gate is passed, db.getAllUsers() is awaited.
CaptureBegin(p) ==
  /\ pc[p] = "idle"
  /\ isActive /\ Len(currentDetections) # 0
  /\ ~InCooldown(clock)
  /\ pc' = [pc EXCEPT ![p] = "getAllUsers"]
  /\ now' = [now EXCEPT ![p] = clock]
  /\ ret' = [ret EXCEPT ![p] = "none"]
  /\ wrote' = [wrote EXCEPT ![p] = FALSE]
  /\ startUsers' = [startUsers EXCEPT ![p] = users]
  /\ UNCHANGED <<clock, isActive, currentDetections, lastRecognitionTime,
                 users, labeledDescriptors, attendanceRecords, toast,
                 usersSnap, bestMatch, detecting, deleting, lastAccept,
                 sessionAccepted>>
  /\ UNCHANGED <<enrVars, quaVars, galVars, demoVars, demoHist, camVars, stoVars,
                 appVars>>

\* The catch block is entered: db.logActivity is awaited.
Throw(p) ==
  /\ pc' = [pc EXCEPT ![p] = "logActivity"]
  /\ UNCHANGED <<now, usersSnap, bestMatch, ret>>

\* db.getAllUsers() rejects.
GetAllUsersFails(p) ==
  /\ pc[p] = "getAllUsers"
  /\ Throw(p)
  /\ UNCHANGED <<clock, isActive, currentDetections, lastRecognitionTime,
                 users, labeledDescriptors, attendanceRecords, toast, wrote,
                 detecting, deleting, lastAccept, sessionAccepted>>
  /\ UNCHANGED <<enrVars, quaVars, sideVars>>

\* db.getAllUsers() resolves and recognizeFaces(this.currentDetections) throws.
RecognizeFails(p) ==
  /\ pc[p] = "getAllUsers"
  /\ Len(labeledDescriptors) # 0
  /\ Throw(p)
  /\ UNCHANGED <<clock, isActive, currentDetections, lastRecognitionTime,
                 users, labeledDescriptors, attendanceRecords, toast, wrote,
                 detecting, deleting, lastAccept, sessionAccepted>>
  /\ UNCHANGED <<enrVars, quaVars, sideVars>>

\* Lines 141-146: recognizeFaces returns no result.
RecognizeNothing(p) ==
  /\ pc[p] = "getAllUsers"
  /\ Len(RecognizeFaces(currentDetections, labeledDescriptors, clock)) = 0
  /\ toast' = [kind |-> "notProcessed", remaining |-> 0]
  /\ Return(p, "false")
  /\ UNCHANGED <<clock, isActive, currentDetections, lastRecognitionTime,
                 users, labeledDescriptors, attendanceRecords, wrote,
                 detecting, deleting, lastAccept, sessionAccepted>>
  /\ UNCHANGED <<enrVars, quaVars, sideVars>>

\* A reject that records a cooldown success.
RecognizeRejectRecordsSuccess(p) ==
  /\ pc[p] = "getAllUsers"
  /\ LET results == RecognizeFaces(currentDetections, labeledDescriptors, clock)
     IN  /\ Len(results) # 0
         /\ Len(EligibleSorted(results)) = 0
  /\ toast' = [kind |-> "notRecognized", remaining |-> 0]
  /\ lastRecognitionTime' = now[p]
  /\ Return(p, "false")
  /\ UNCHANGED <<clock, isActive, currentDetections,
                 users, labeledDescriptors, attendanceRecords, wrote,
                 detecting, deleting, lastAccept, sessionAccepted>>
  /\ UNCHANGED <<enrVars, quaVars, sideVars>>

\* Lines 173-178: no result is eligible.
RecognizeReject(p) ==
  /\ pc[p] = "getAllUsers"
  /\ LET results == RecognizeFaces(currentDetections, labeledDescriptors, clock)
     IN  /\ Len(results) # 0
         /\ Len(EligibleSorted(results)) = 0
  /\ toast' = [kind |-> "notRecognized", remaining |-> 0]
  /\ Return(p, "false")
  /\ UNCHANGED <<clock, isActive, currentDetections, lastRecognitionTime,
                 users, labeledDescriptors, attendanceRecords, wrote,
                 detecting, deleting, lastAccept, sessionAccepted>>
  /\ UNCHANGED <<enrVars, quaVars, sideVars>>

\* Records in the store or about to be stored.
RecordsUnderWay ==
  Len(attendanceRecords) + Cardinality({q \in Slots : pc[q] = "addAttendanceRecord"})

\* Lines 148-159: a best match exists, db.addAttendanceRecord is awaited.
RecognizeAccept(p) ==
  /\ pc[p] = "getAllUsers"
  /\ RecordsUnderWay < MaxRecords
  /\ LET results == RecognizeFaces(currentDetections, labeledDescriptors, clock)
         eligible == EligibleSorted(results)
     IN  /\ Len(eligible) # 0
         /\ bestMatch' = [bestMatch EXCEPT ![p] = eligible[1]]
  /\ usersSnap' = [usersSnap EXCEPT ![p] = users]
  /\ pc' = [pc EXCEPT ![p] = "addAttendanceRecord"]
  /\ UNCHANGED <<clock, isActive, currentDetections, lastRecognitionTime,
                 users, labeledDescriptors, attendanceRecords, toast, now,
                 ret, wrote, detecting, deleting, lastAccept,
                 sessionAccepted>>
  /\ UNCHANGED <<enrVars, quaVars, sideVars>>

\* db.addAttendanceRecord rejects: nothing is stored.
AddAttendanceRecordFails(p) ==
  /\ pc[p] = "addAttendanceRecord"
  /\ Throw(p)
  /\ UNCHANGED <<clock, isActive, currentDetections, lastRecognitionTime,
                 users, labeledDescriptors, attendanceRecords, toast, wrote,
                 detecting, deleting, lastAccept, sessionAccepted>>
  /\ UNCHANGED <<enrVars, quaVars, sideVars>>

\* The record db.addAttendanceRecord stores.
AttendanceRecord(p) ==
  [userId |-> bestMatch[p].userId,
   confidence |-> bestMatch[p].confidence,
   timestamp |-> bestMatch[p].timestamp]

\* Lines 155-172: the record is stored, the user is found, the call accepts.
AttendanceRecorded(p) ==
  /\ pc[p] = "addAttendanceRecord"
  /\ bestMatch[p].userId \in usersSnap[p]
  /\ attendanceRecords' = Append(attendanceRecords, AttendanceRecord(p))
  /\ wrote' = [wrote EXCEPT ![p] = TRUE]
  /\ toast' = [kind |-> "welcome", remaining |-> 0]
  /\ lastRecognitionTime' = now[p]
  /\ lastAccept' = now[p]
  /\ sessionAccepted' = TRUE
  /\ Return(p, "true")
  /\ UNCHANGED <<clock, isActive, currentDetections, users,
                 labeledDescriptors, detecting, deleting>>
  /\ UNCHANGED <<enrVars, quaVars, sideVars>>

\* Lines 155-169: the record is stored, users.find yields undefined and
\* `user.name` throws a TypeError.
AttendanceRecordedUserMissing(p) ==
  /\ pc[p] = "addAttendanceRecord"
  /\ bestMatch[p].userId \notin usersSnap[p]
  /\ attendanceRecords' = Append(attendanceRecords, AttendanceRecord(p))
  /\ wrote' = [wrote EXCEPT ![p] = TRUE]
  /\ Throw(p)
  /\ UNCHANGED <<clock, isActive, currentDetections, lastRecognitionTime,
                 users, labeledDescriptors, toast, detecting, deleting,
                 lastAccept, sessionAccepted>>
  /\ UNCHANGED <<enrVars, quaVars, sideVars>>

\* Lines 179-185: the catch block ends.
CaptureFailed(p) ==
  /\ pc[p] = "logActivity"
  /\ toast' = [kind |-> "failed", remaining |-> 0]
  /\ Return(p, "false")
  /\ UNCHANGED <<clock, isActive, currentDetections, lastRecognitionTime,
                 users, labeledDescriptors, attendanceRecords, wrote,
                 detecting, deleting, lastAccept, sessionAccepted>>
  /\ UNCHANGED <<enrVars, quaVars, sideVars>>

Next ==
  \/ \E d \in TickAmounts : Tick(d)
  \/ Initialize
  \/ Stop
  \/ DetectStart
  \/ \E frame \in GateFrames : DetectFinish(frame)
  \/ \E p \in Slots : CaptureNoFaces(p)
  \/ \E p \in Slots : CaptureCooldown(p)
  \/ \E p \in Slots : CaptureBegin(p)
  \/ \E p \in Slots : GetAllUsersFails(p)
  \/ \E p \in Slots : RecognizeFails(p)
  \/ \E p \in Slots : RecognizeNothing(p)
  \/ \E p \in Slots : RecognizeReject(p)
  \/ \E p \in Slots : RecognizeAccept(p)
  \/ \E p \in Slots : AddAttendanceRecordFails(p)
  \/ \E p \in Slots : AttendanceRecorded(p)
  \/ \E p \in Slots : CaptureFailed(p)

Spec == Init /\ [][Next]_vars

(***************************************************************************)
(* The decision on its own: one invocation, every frame, users deleted     *)
(***************************************************************************)
\* An active session whose detection loop has delivered a frame.
InitDecision ==
  /\ clock = EpochStart
  /\ isActive = TRUE
  /\ currentDetections \in Frames
  /\ lastRecognitionTime = 0
  /\ users = UserIds
  /\ labeledDescriptors = GalleryOf(UserIds)
  /\ attendanceRecords = <<>>
  /\ toast = NoToast
  /\ pc = [p \in Slots |-> "idle"]
  /\ now = [p \in Slots |-> 0]
  /\ usersSnap = [p \in Slots |-> {}]
  /\ bestMatch = [p \in Slots |-> NoMatch]
  /\ ret = [p \in Slots |-> "none"]
  /\ wrote = [p \in Slots |-> FALSE]
  /\ detecting = 0
  /\ deleting = NoUser
  /\ lastAccept = 0
  /\ sessionAccepted = FALSE
  /\ isEnrolling = FALSE
  /\ enrollmentSamples = <<>>
  /\ sampling = 0
  /\ autoComplete = 0
  /\ completing = [c \in CompletingSlots |-> NotCompleting]
  /\ faces = Undefined
  /\ enrolled = <<>>
  /\ enrollToast = EnrollToast("none", 0)
  /\ probe = NoFields
  /\ probeQuality = Undefined
  /\ probeValidation = Undefined
  /\ SideInit
  /\ manager = "DatabaseManager"

NextDecision ==
  \/ Tick(recognitionCooldown)
  \/ \E u \in UserIds : DeleteUser(u)
  \/ ReloadGallery
  \/ CaptureCooldown("button")
  \/ CaptureNoFaces("button")
  \/ CaptureBegin("button")
  \/ GetAllUsersFails("button")
  \/ RecognizeFails("button")
  \/ RecognizeNothing("button")
  \/ RecognizeReject("button")
  \/ RecognizeAccept("button")
  \/ AddAttendanceRecordFails("button")
  \/ AttendanceRecorded("button")
  \/ AttendanceRecordedUserMissing("button")
  \/ CaptureFailed("button")

SpecDecision == InitDecision /\ [][NextDecision]_vars

(***************************************************************************)
(* UserManagement: the enrollment session                                  *)
(***************************************************************************)
\* An invocation of completeEnrollment is suspended in an await.
Completing(c) == completing[c].pc # "idle"

ActiveCompletions == Cardinality({c \in CompletingSlots : Completing(c)})

\* The array a loop of line 169 iterates is no longer this.enrollmentSamples
\* once this.enrollmentSamples is assigned a new array.
Unaliased(f) == [c \in CompletingSlots |-> [f[c] EXCEPT !.alias = FALSE]]

\* this.enrollmentSamples.push(...): a loop that iterates the same array
\* will visit the new element.
Pushed(f) ==
  [c \in CompletingSlots |->
     IF f[c].alias THEN [f[c] EXCEPT !.count = @ + 1] ELSE f[c]]

\* startEnrollment(): the start button is enabled only while not enrolling.
StartEnrollment ==
  /\ ~isEnrolling
  /\ isEnrolling' = TRUE
  /\ enrollmentSamples' = <<>>
  /\ completing' = Unaliased(completing)
  /\ enrollToast' = EnrollToast("started", 0)
  /\ UNCHANGED <<sampling, faces, autoComplete, enrolled>>
  /\ UNCHANGED <<attVars, quaVars, sideVars>>

\* Line 88: not enrolling, or enough samples are held.
CaptureSampleRefused ==
  /\ ~isEnrolling \/ Len(enrollmentSamples) >= requiredSamples
  /\ UNCHANGED enrVars
  /\ UNCHANGED <<attVars, quaVars, sideVars>>

\* Lines 88-94: the guard is passed, faceEngine.detectFaces is awaited.
CaptureSampleBegin ==
  /\ sampling < MaxSampling
  /\ isEnrolling /\ Len(enrollmentSamples) < requiredSamples
  /\ sampling' = sampling + 1
  /\ UNCHANGED faces
  /\ UNCHANGED <<isEnrolling, enrollmentSamples, autoComplete, completing,
                 enrolled, enrollToast>>
  /\ UNCHANGED <<attVars, quaVars, sideVars>>

\* Lines 136-140: the detector throws.
CaptureSampleThrows ==
  /\ sampling > 0
  /\ sampling' = sampling - 1
  /\ faces' = Undefined
  /\ enrollToast' = EnrollToast("captureFailed", 0)
  /\ UNCHANGED <<isEnrolling, enrollmentSamples, autoComplete, completing, enrolled>>
  /\ UNCHANGED <<attVars, quaVars, sideVars>>

\* Lines 96-114 and 136-140: no face, several faces, or one face whose
\* validation fails or throws.
CaptureSampleRejected(detections) ==
  /\ sampling > 0
  /\ IF Len(detections) # 1 THEN TRUE
     ELSE ~validateEnrollmentQuality(detections[1]).isValid
  /\ sampling' = sampling - 1
  /\ faces' = Some(Len(detections))
  /\ enrollToast' =
       IF Len(detections) = 0 THEN EnrollToast("noFace", 0)
       ELSE IF Len(detections) > 1 THEN EnrollToast("multipleFaces", 0)
       ELSE IF validateEnrollmentQuality(detections[1]).threw
            THEN EnrollToast("captureFailed", 0)
            ELSE EnrollToast("lowQuality",
                             Len(validateEnrollmentQuality(detections[1]).issues))
  /\ UNCHANGED <<isEnrolling, enrollmentSamples, autoComplete, completing, enrolled>>
  /\ UNCHANGED <<attVars, quaVars, sideVars>>

\* A capture that stores the first face of several.
CaptureSampleAcceptedOneOfMany(detections) ==
  /\ sampling > 0
  /\ Len(detections) >= 1
  /\ validateEnrollmentQuality(detections[1]).isValid
  /\ enrollmentSamples' =
       Append(enrollmentSamples, validateEnrollmentQuality(detections[1]).quality)
  /\ completing' = Pushed(completing)
  /\ sampling' = sampling - 1
  /\ faces' = Some(Len(detections))
  /\ enrollToast' = EnrollToast("captured", 0)
  /\ IF Len(enrollmentSamples) + 1 >= requiredSamples
     THEN /\ autoComplete + ActiveCompletions < MaxCompleting
          /\ autoComplete' = autoComplete + 1
     ELSE UNCHANGED autoComplete
  /\ UNCHANGED <<isEnrolling, enrolled>>
  /\ UNCHANGED <<attVars, quaVars, sideVars>>

\* Lines 106-135: one face of valid quality: the sample is stored; with
\* enough samples the automatic completion is scheduled.
CaptureSampleAccepted(detections) ==
  /\ sampling > 0
  /\ Len(detections) = 1
  /\ validateEnrollmentQuality(detections[1]).isValid
  /\ enrollmentSamples' =
       Append(enrollmentSamples, validateEnrollmentQuality(detections[1]).quality)
  /\ completing' = Pushed(completing)
  /\ sampling' = sampling - 1
  /\ faces' = Some(Len(detections))
  /\ enrollToast' = EnrollToast("captured", 0)
  /\ IF Len(enrollmentSamples) + 1 >= requiredSamples
     THEN /\ autoComplete + ActiveCompletions < MaxCompleting
          /\ autoComplete' = autoComplete + 1
     ELSE UNCHANGED autoComplete
  /\ UNCHANGED <<isEnrolling, enrolled>>
  /\ UNCHANGED <<attVars, quaVars, sideVars>>

\* A shortfall counted from the samples held.
ShortfallHeld == Len(enrollmentSamples)

\* Line 145: this.requiredSamples - this.enrollmentSamples.length.
Shortfall == requiredSamples - Len(enrollmentSamples)

\* Lines 144-147: completeEnrollment with too few samples.
CompleteEnrollmentRefused(timer) ==
  /\ Len(enrollmentSamples) < requiredSamples
  /\ IF timer THEN autoComplete > 0 /\ autoComplete' = autoComplete - 1
     ELSE UNCHANGED autoComplete
  /\ enrollToast' = EnrollToast("needMore", Shortfall)
  /\ UNCHANGED <<isEnrolling, enrollmentSamples, sampling, faces, completing, enrolled>>
  /\ UNCHANGED <<attVars, quaVars, sideVars>>

\* Lines 144-160: completeEnrollment, from the button or from the timer,
\* reads the form and awaits db.getAllUsers().
CompleteEnrollmentBegin(timer, c) ==
  /\ ~Completing(c)
  /\ \A b \in CompletingSlots : b < c => Completing(b)
  /\ Len(enrollmentSamples) >= requiredSamples
  /\ IF timer THEN autoComplete > 0 /\ autoComplete' = autoComplete - 1
     ELSE /\ isEnrolling
          /\ autoComplete + ActiveCompletions < MaxCompleting
          /\ UNCHANGED autoComplete
  /\ completing' = [completing EXCEPT ![c].pc = "getAllUsers"]
  /\ UNCHANGED <<isEnrolling, enrollmentSamples, sampling, faces, enrolled, enrollToast>>
  /\ UNCHANGED <<attVars, quaVars, sideVars>>

\* Lines 160-166: the email is not in the store, db.addUser is awaited.
CompleteEnrollmentAddUser(c) ==
  /\ completing[c].pc = "getAllUsers"
  /\ completing' = [completing EXCEPT ![c].pc = "addUser"]
  /\ UNCHANGED <<isEnrolling, enrollmentSamples, sampling, faces, autoComplete,
                 enrolled, enrollToast>>
  /\ UNCHANGED <<attVars, quaVars, sideVars>>

\* stopEnrollment(), lines 198-217.
StopEnrollment ==
  /\ isEnrolling' = FALSE
  /\ enrollmentSamples' = <<>>

\* Lines 166-177: the user is in the store; the loop starts over the array
\* that this.enrollmentSamples is now and awaits the first enrollFace, or
\* ends at once over an empty array.
CompleteEnrollmentUserAdded(c) ==
  /\ completing[c].pc = "addUser"
  /\ Len(enrolled) < MaxEnrolled
  /\ enrolled' = Append(enrolled, [descriptors |-> 0, gallery |-> 0, resolved |-> FALSE])
  /\ IF Len(enrollmentSamples) = 0
     THEN /\ completing' = [Unaliased(completing) EXCEPT
                              ![c] = [pc |-> "loadUserTable", userId |-> Len(enrolled) + 1,
                                      index |-> 0, count |-> 0, alias |-> FALSE]]
          /\ StopEnrollment
     ELSE /\ completing' = [completing EXCEPT
                              ![c] = [pc |-> "enrollFace", userId |-> Len(enrolled) + 1,
                                      index |-> 0, count |-> Len(enrollmentSamples),
                                      alias |-> TRUE]]
          /\ UNCHANGED <<isEnrolling, enrollmentSamples>>
  /\ UNCHANGED <<sampling, faces, autoComplete, enrollToast>>
  /\ UNCHANGED <<attVars, quaVars, sideVars>>

\* enrollFace, part_004 lines 185-207: the descriptor is stored and the
\* gallery reloaded from the store; then the loop awaits the next enrollFace
\* or, after the last sample, stopEnrollment() is called and the user table
\* is awaited (lines 169-181).
EnrollFaceStored(c) ==
  /\ completing[c].pc = "enrollFace"
  /\ enrolled' = [enrolled EXCEPT ![completing[c].userId] =
                    [@ EXCEPT !.descriptors = @ + 1, !.gallery = enrolled[completing[c].userId].descriptors + 1]]
  /\ IF completing[c].index + 1 >= completing[c].count
     THEN /\ completing' = [Unaliased(completing) EXCEPT
                              ![c] = [@ EXCEPT !.pc = "loadUserTable",
                                               !.index = @ + 1, !.alias = FALSE]]
          /\ StopEnrollment
     ELSE /\ completing' = [completing EXCEPT ![c].index = @ + 1]
          /\ UNCHANGED <<isEnrolling, enrollmentSamples>>
  /\ UNCHANGED <<sampling, faces, autoComplete, enrollToast>>
  /\ UNCHANGED <<attVars, quaVars, sideVars>>

\* The user created by invocation c, if any, belongs to a call that returned.
Resolved(c) ==
  IF completing[c].userId = NoUser THEN enrolled
  ELSE [enrolled EXCEPT ![completing[c].userId].resolved = TRUE]

\* Lines 181-189: the user table is refreshed, true is returned.
CompleteEnrollmentDone(c) ==
  /\ completing[c].pc = "loadUserTable"
  /\ completing' = [completing EXCEPT ![c] = NotCompleting]
  /\ enrolled' = Resolved(c)
  /\ enrollToast' = EnrollToast("enrolled", 0)
  /\ UNCHANGED <<isEnrolling, enrollmentSamples, sampling, faces, autoComplete>>
  /\ UNCHANGED <<attVars, quaVars, sideVars>>

\* Lines 190-195: an awaited call rejects (the email exists, the store
\* rejects the user or a descriptor, the refresh fails): false is returned.
CompleteEnrollmentFails(c) ==
  /\ Completing(c)
  /\ completing' = [completing EXCEPT ![c] = NotCompleting]
  /\ enrolled' = Resolved(c)
  /\ enrollToast' = EnrollToast("enrollFailed", 0)
  /\ UNCHANGED <<isEnrolling, enrollmentSamples, sampling, faces, autoComplete>>
  /\ UNCHANGED <<attVars, quaVars, sideVars>>

\* cleanup() on page teardown: stopEnrollment() while enrolling.
CleanupEnrollment ==
  /\ isEnrolling
  /\ StopEnrollment
  /\ completing' = Unaliased(completing)
  /\ UNCHANGED <<sampling, faces, autoComplete, enrolled, enrollToast>>
  /\ UNCHANGED <<attVars, quaVars, sideVars>>

NextEnroll ==
  \/ StartEnrollment
  \/ CaptureSampleRefused
  \/ CaptureSampleBegin
  \/ CaptureSampleThrows
  \/ \E detections \in EnrollFrames : CaptureSampleRejected(detections)
  \/ \E detections \in EnrollFrames : CaptureSampleAccepted(detections)
  \/ \E timer \in BOOLEAN : CompleteEnrollmentRefused(timer)
  \/ \E timer \in BOOLEAN, c \in CompletingSlots : CompleteEnrollmentBegin(timer, c)
  \/ \E c \in CompletingSlots : CompleteEnrollmentAddUser(c)
  \/ \E c \in CompletingSlots : CompleteEnrollmentUserAdded(c)
  \/ \E c \in CompletingSlots : EnrollFaceStored(c)
  \/ \E c \in CompletingSlots : CompleteEnrollmentDone(c)
  \/ \E c \in CompletingSlots : CompleteEnrollmentFails(c)
  \/ CleanupEnrollment

SpecEnroll == Init /\ [][NextEnroll]_vars

\* The enrollment session with one completeEnrollment at a time: a second
\* invocation is made only after the first has returned.
NextCollect ==
  \/ StartEnrollment
  \/ CaptureSampleRefused
  \/ CaptureSampleBegin
  \/ CaptureSampleThrows
  \/ \E detections \in EnrollFrames : CaptureSampleRejected(detections)
  \/ \E detections \in EnrollFrames : CaptureSampleAccepted(detections)
  \/ \E timer \in BOOLEAN : CompleteEnrollmentRefused(timer)
  \/ \E timer \in BOOLEAN : CompleteEnrollmentBegin(timer, 1)
  \/ CompleteEnrollmentAddUser(1)
  \/ CompleteEnrollmentUserAdded(1)
  \/ EnrollFaceStored(1)
  \/ CompleteEnrollmentDone(1)
  \/ CompleteEnrollmentFails(1)
  \/ CleanupEnrollment

SpecCollect == Init /\ [][NextCollect]_vars

(***************************************************************************)
(* The quality scorer applied to a detection                               *)
(***************************************************************************)
InitQuality ==
  /\ clock = EpochStart
  /\ isActive = FALSE
  /\ currentDetections = <<>>
  /\ lastRecognitionTime = 0
  /\ users = UserIds
  /\ labeledDescriptors = GalleryOf(UserIds)
  /\ attendanceRecords = <<>>
  /\ toast = NoToast
  /\ pc = [p \in Slots |-> "idle"]
  /\ now = [p \in Slots |-> 0]
  /\ usersSnap = [p \in Slots |-> {}]
  /\ bestMatch = [p \in Slots |-> NoMatch]
  /\ ret = [p \in Slots |-> "none"]
  /\ wrote = [p \in Slots |-> FALSE]
  /\ detecting = 0
  /\ deleting = NoUser
  /\ lastAccept = 0
  /\ sessionAccepted = FALSE
  /\ isEnrolling = FALSE
  /\ enrollmentSamples = <<>>
  /\ sampling = 0
  /\ autoComplete = 0
  /\ completing = [c \in CompletingSlots |-> NotCompleting]
  /\ faces = Undefined
  /\ enrolled = <<>>
  /\ enrollToast = EnrollToast("none", 0)
  /\ probe \in ProbeDetections
  /\ probeQuality = Undefined
  /\ probeValidation = Undefined
  /\ SideInit
  /\ manager = "DatabaseManager"

\* calculateFaceQuality(probe) is called and returns.
CallCalculateFaceQuality ==
  /\ probeQuality = Undefined
  /\ probeQuality' = Some(calculateFaceQuality(probe))
  /\ UNCHANGED <<probe, probeValidation>>
  /\ UNCHANGED <<attVars, enrVars, sideVars>>

\* validateEnrollmentQuality(probe) is called and returns or throws.
CallValidateEnrollmentQuality ==
  /\ probeValidation = Undefined
  /\ probeValidation' = Some(validateEnrollmentQuality(probe))
  /\ UNCHANGED <<probe, probeQuality>>
  /\ UNCHANGED <<attVars, enrVars, sideVars>>

NextQuality ==
  \/ CallCalculateFaceQuality
  \/ CallValidateEnrollmentQuality

SpecQuality == InitQuality /\ [][NextQuality]_vars

(***************************************************************************)
(* enrollFace, deleteUser and recognizeFaces on the gallery                *)
(***************************************************************************)
\* The slot a new invocation takes: the first that holds none.
FreeSlot(o) ==
  /\ ops[o].pc = "idle"
  /\ \A q \in OpSlots : q < o => ops[q].pc # "idle"

\* enrollFace lines 185-197: the descriptor is valid, db.addFaceDescriptor
\* is awaited.
EnrollFaceBegin(o, u, faceDescriptor) ==
  /\ FreeSlot(o)
  /\ ValidDescriptor(faceDescriptor)
  /\ nextDescriptorId <= MaxStored
  /\ Cardinality({q \in OpSlots : ops[q].pc = "addFaceDescriptor"})
       < MaxStored + 1 - nextDescriptorId
  /\ ops' = [ops EXCEPT ![o] = [NoOp EXCEPT !.pc = "addFaceDescriptor", !.userId = u,
                                            !.faceDescriptor = faceDescriptor]]
  /\ UNCHANGED <<userRows, faceDescriptors, nextDescriptorId,
                 labeledFaceDescriptors, faceMatcher, loaded>>
  /\ UNCHANGED exceptGal

\* enrollFace lines 190-194 and 208-209: the descriptor is missing or not of
\* 128 numbers, "Invalid face descriptor" is thrown and caught, and
\* db.logActivity("error", ...) is awaited.
EnrollFaceInvalid(o, faceDescriptor) ==
  /\ FreeSlot(o)
  /\ ~ValidDescriptor(faceDescriptor)
  /\ ops' = [ops EXCEPT ![o] = [NoOp EXCEPT !.pc = "logActivity"]]
  /\ UNCHANGED <<userRows, faceDescriptors, nextDescriptorId,
                 labeledFaceDescriptors, faceMatcher, loaded>>
  /\ UNCHANGED exceptGal

\* enrollFace line 210: the log entry is written, the error is thrown on to
\* the caller.
EnrollFaceThrows(o) ==
  /\ ops[o].pc = "logActivity"
  /\ ops' = [ops EXCEPT ![o].pc = "thrown"]
  /\ UNCHANGED <<userRows, faceDescriptors, nextDescriptorId,
                 labeledFaceDescriptors, faceMatcher, loaded>>
  /\ UNCHANGED exceptGal

\* The caller has the error: the catch of completeEnrollment, part_000
\* lines 190-195.
EnrollFaceCaught(o) ==
  /\ ops[o].pc = "thrown"
  /\ ops' = [ops EXCEPT ![o] = NoOp]
  /\ UNCHANGED <<userRows, faceDescriptors, nextDescriptorId,
                 labeledFaceDescriptors, faceMatcher, loaded>>
  /\ UNCHANGED exceptGal

\* db.addFaceDescriptor resolves (part_002 lines 196-215); enrollFace calls
\* loadFaceDescriptors, which awaits db.getFaceDescriptors (line 66).
FaceDescriptorStored(o) ==
  /\ ops[o].pc = "addFaceDescriptor"
  /\ faceDescriptors' = faceDescriptors \cup
                          {[id |-> nextDescriptorId, userId |-> ops[o].userId]}
  /\ nextDescriptorId' = nextDescriptorId + 1
  /\ ops' = [ops EXCEPT ![o] = LoadFaceDescriptors]
  /\ UNCHANGED <<userRows, labeledFaceDescriptors, faceMatcher, loaded>>
  /\ UNCHANGED exceptGal

\* deleteUser lines 334-343: the user is found, the dialog is confirmed,
\* db.deleteUser is awaited.
DeleteUserBegin(o, u) ==
  /\ FreeSlot(o)
  /\ u \in userRows
  /\ ops' = [ops EXCEPT ![o] = [NoOp EXCEPT !.pc = "deleteUserRow", !.userId = u]]
  /\ UNCHANGED <<userRows, faceDescriptors, nextDescriptorId,
                 labeledFaceDescriptors, faceMatcher, loaded>>
  /\ UNCHANGED exceptGal

\* db.deleteUser lines 168-171: the row is gone by now, "User not found" is
\* thrown and deleteUser ends in its catch block without a reload.
DeleteUserNotFound(o) ==
  /\ ops[o].pc = "deleteUserRow"
  /\ ops[o].userId \notin userRows
  /\ ops' = [ops EXCEPT ![o] = NoOp]
  /\ UNCHANGED <<userRows, faceDescriptors, nextDescriptorId,
                 labeledFaceDescriptors, faceMatcher, loaded>>
  /\ UNCHANGED exceptGal

\* db.deleteUser lines 168-175: the row of the user is deleted.
UserRowDeleted(o) ==
  /\ ops[o].pc = "deleteUserRow"
  /\ ops[o].userId \in userRows
  /\ userRows' = userRows \ {ops[o].userId}
  /\ ops' = [ops EXCEPT ![o].pc = "deleteDescriptors"]
  /\ UNCHANGED <<faceDescriptors, nextDescriptorId, labeledFaceDescriptors,
                 faceMatcher, loaded>>
  /\ UNCHANGED exceptGal

\* db.deleteUser lines 177-189: the descriptors of the user are deleted in
\* one transaction; deleteUser goes on to loadUserTable, updateStats and
\* loadFaceDescriptors, which awaits db.getFaceDescriptors.
DescriptorsDeleted(o) ==
  /\ ops[o].pc = "deleteDescriptors"
  /\ faceDescriptors' = {d \in faceDescriptors : d.userId # ops[o].userId}
  /\ ops' = [ops EXCEPT ![o] = LoadFaceDescriptors]
  /\ UNCHANGED <<userRows, nextDescriptorId, labeledFaceDescriptors,
                 faceMatcher, loaded>>
  /\ UNCHANGED exceptGal

\* loadFaceDescriptors lines 66-67: db.getFaceDescriptors() resolves,
\* db.getAllUsers() is awaited.
DescriptorsRead(o) ==
  /\ ops[o].pc = "getFaceDescriptors"
  /\ ops' = [ops EXCEPT ![o].pc = "getAllUsers",
                        ![o].descriptors = faceDescriptors]
  /\ UNCHANGED <<userRows, faceDescriptors, nextDescriptorId,
                 labeledFaceDescriptors, faceMatcher, loaded>>
  /\ UNCHANGED exceptGal

\* A rebuild that loses the first entry it has pushed.
GalleryRebuiltPartly(o) ==
  /\ ops[o].pc = "getAllUsers"
  /\ labeledFaceDescriptors' =
       LET gallery == Rebuilt(ops[o].descriptors, userRows)
       IN  IF gallery = <<>> THEN gallery ELSE Tail(gallery)
  /\ loaded' = [descriptors |-> ops[o].descriptors, users |-> userRows]
  /\ ops' = [ops EXCEPT ![o] = NoOp]
  /\ UNCHANGED <<userRows, faceDescriptors, nextDescriptorId, faceMatcher>>
  /\ UNCHANGED exceptGal

\* loadFaceDescriptors lines 67-81: db.getAllUsers() resolves, the gallery is
\* emptied and refilled without an await; the caller returns.
GalleryRebuilt(o) ==
  /\ ops[o].pc = "getAllUsers"
  /\ labeledFaceDescriptors' = Rebuilt(ops[o].descriptors, userRows)
  /\ loaded' = [descriptors |-> ops[o].descriptors, users |-> userRows]
  /\ ops' = [ops EXCEPT ![o] = NoOp]
  /\ UNCHANGED <<userRows, faceDescriptors, nextDescriptorId, faceMatcher>>
  /\ UNCHANGED exceptGal

\* recognizeFaces lines 117-119: the gallery is empty, no matcher is built.
RecognizeNoGallery ==
  /\ Len(labeledFaceDescriptors) = 0
  /\ faceMatcher' = Undefined
  /\ UNCHANGED <<userRows, faceDescriptors, nextDescriptorId,
                 labeledFaceDescriptors, ops, loaded>>
  /\ UNCHANGED exceptGal

\* recognizeFaces line 122: new faceapi.FaceMatcher(this.labeledDescriptors).
BuildFaceMatcher ==
  /\ Len(labeledFaceDescriptors) # 0
  /\ faceMatcher' = Some(labeledFaceDescriptors)
  /\ UNCHANGED <<userRows, faceDescriptors, nextDescriptorId,
                 labeledFaceDescriptors, ops, loaded>>
  /\ UNCHANGED exceptGal

NextGallery ==
  \/ \E o \in OpSlots, u \in UserIds, faceDescriptor \in FaceDescriptors :
       EnrollFaceBegin(o, u, faceDescriptor)
  \/ \E o \in OpSlots : FaceDescriptorStored(o)
  \/ \E o \in OpSlots, u \in UserIds : DeleteUserBegin(o, u)
  \/ \E o \in OpSlots : DeleteUserNotFound(o)
  \/ \E o \in OpSlots : UserRowDeleted(o)
  \/ \E o \in OpSlots : DescriptorsDeleted(o)
  \/ \E o \in OpSlots : DescriptorsRead(o)
  \/ \E o \in OpSlots : GalleryRebuilt(o)
  \/ RecognizeNoGallery
  \/ BuildFaceMatcher

SpecGallery == Init /\ [][NextGallery]_vars

\* enrollFace with any descriptor, and the rebuilds it starts.
NextEnrollFace ==
  \/ \E o \in OpSlots, u \in UserIds, faceDescriptor \in FaceDescriptors :
       EnrollFaceBegin(o, u, faceDescriptor)
  \/ \E o \in OpSlots, faceDescriptor \in FaceDescriptors :
       EnrollFaceInvalid(o, faceDescriptor)
  \/ \E o \in OpSlots : EnrollFaceThrows(o)
  \/ \E o \in OpSlots : EnrollFaceCaught(o)
  \/ \E o \in OpSlots : FaceDescriptorStored(o)
  \/ \E o \in OpSlots : DescriptorsRead(o)
  \/ \E o \in OpSlots : GalleryRebuilt(o)

SpecEnrollFace == Init /\ [][NextEnrollFace]_vars

(***************************************************************************)
(* The demo page: camera, capture countdown and checkAttendance            *)
(***************************************************************************)
\* Key "s" with the start button enabled: startCamera() awaits
\* enumerateDevices and getUserMedia (lines 114-117, 150-170).
StartCamera ==
  /\ ~unloaded
  /\ ~disabled.start
  /\ starting + Len(mediaTracks) < MaxStreams
  /\ starting' = starting + 1
  /\ UNCHANGED <<videoStream, mediaTracks, loadingMetadata, disabled,
                 isScanning, countdowns, captureTimeouts, capturedImage,
                 recognitionAttempts, processing, statusText, unloaded>>
  /\ UNCHANGED demoHist
  /\ UNCHANGED exceptDemo

\* Lines 158-160, 178-192: no camera, or getUserMedia rejects.
StartCameraFails ==
  /\ ~unloaded
  /\ starting > 0
  /\ starting' = starting - 1
  /\ UNCHANGED <<videoStream, mediaTracks, loadingMetadata, disabled,
                 isScanning, countdowns, captureTimeouts, capturedImage,
                 recognitionAttempts, processing, statusText, unloaded>>
  /\ UNCHANGED demoHist
  /\ UNCHANGED exceptDemo

\* Lines 170-171: getUserMedia resolves, the stream is assigned and shown.
VideoStreamAcquired ==
  /\ ~unloaded
  /\ starting > 0
  /\ starting' = starting - 1
  /\ mediaTracks' = Append(mediaTracks, "live")
  /\ videoStream' = Len(mediaTracks) + 1
  /\ loadingMetadata' = TRUE
  /\ UNCHANGED <<disabled, isScanning, countdowns, captureTimeouts,
                 capturedImage, recognitionAttempts, processing, statusText,
                 unloaded>>
  /\ UNCHANGED demoHist
  /\ UNCHANGED exceptDemo

\* Lines 173-177: videoFeed.onloadedmetadata.
OnLoadedMetadata ==
  /\ ~unloaded
  /\ loadingMetadata
  /\ loadingMetadata' = FALSE
  /\ disabled' = ButtonStates(videoStream, capturedImage, isScanning)
  /\ UNCHANGED <<videoStream, mediaTracks, starting, isScanning, countdowns,
                 captureTimeouts, capturedImage, recognitionAttempts,
                 processing, statusText, unloaded>>
  /\ UNCHANGED demoHist
  /\ UNCHANGED exceptDemo

\* The countdown intervals that run and the timeouts they have set.
TimersPending ==
  Cardinality({k \in CountdownSlots : countdowns[k] # Cleared}) + captureTimeouts

\* Key "c" with the capture button enabled: captureImage() resets the
\* attempts and calls startCountdown() (lines 119-122, 207-215, 226-236).
CaptureImage ==
  /\ ~unloaded
  /\ ~disabled.capture
  /\ videoStream # 0
  /\ recognitionAttempts' = 0
  /\ IF isScanning
     THEN UNCHANGED <<isScanning, countdowns>>
     ELSE /\ TimersPending < MaxCountdowns
          /\ isScanning' = TRUE
          /\ \E k \in CountdownSlots :
               /\ countdowns[k] = Cleared
               /\ \A j \in CountdownSlots : j < k => countdowns[j] # Cleared
               /\ countdowns' = [countdowns EXCEPT ![k] = countdownFrom]
  /\ UNCHANGED <<videoStream, mediaTracks, starting, loadingMetadata,
                 disabled, captureTimeouts, capturedImage, processing,
                 statusText, unloaded>>
  /\ UNCHANGED demoHist
  /\ UNCHANGED exceptDemo

\* Lines 236-258: a tick of a countdownInterval.
CountdownTick(k) ==
  /\ ~unloaded
  /\ countdowns[k] # Cleared
  /\ IF ~isScanning
     THEN /\ countdowns' = [countdowns EXCEPT ![k] = Cleared]
          /\ UNCHANGED captureTimeouts
     ELSE IF countdowns[k] = 0
          THEN /\ countdowns' = [countdowns EXCEPT ![k] = Cleared]
               /\ captureTimeouts' = captureTimeouts + 1
          ELSE /\ countdowns' = [countdowns EXCEPT ![k] = @ - 1]
               /\ UNCHANGED captureTimeouts
  /\ UNCHANGED <<videoStream, mediaTracks, starting, loadingMetadata,
                 disabled, isScanning, capturedImage, recognitionAttempts,
                 processing, statusText, unloaded>>
  /\ cancelled' = IF countdowns'[k] = Cleared THEN cancelled \ {k} ELSE cancelled
  /\ UNCHANGED attendanceCounted
  /\ UNCHANGED exceptDemo

\* Lines 248-254 and 261-274: the timeout after "CAPTURE!"; performCapture()
\* calls updateButtonStates() before isScanning is set to false.
CaptureTimeout ==
  /\ ~unloaded
  /\ captureTimeouts > 0
  /\ captureTimeouts' = captureTimeouts - 1
  /\ IF isScanning
     THEN /\ capturedImage' = TRUE
          /\ disabled' = ButtonStates(videoStream, TRUE, isScanning)
          /\ isScanning' = FALSE
     ELSE UNCHANGED <<capturedImage, disabled, isScanning>>
  /\ UNCHANGED <<videoStream, mediaTracks, starting, loadingMetadata,
                 countdowns, recognitionAttempts, processing, statusText,
                 unloaded>>
  /\ attendanceCounted' = IF isScanning THEN 0 ELSE attendanceCounted
  /\ UNCHANGED cancelled
  /\ UNCHANGED exceptDemo

\* Key "escape" while scanning: cancelScanning() (lines 129-133, 217-224).
CancelScanning ==
  /\ ~unloaded
  /\ isScanning
  /\ isScanning' = FALSE
  /\ UNCHANGED <<videoStream, mediaTracks, starting, loadingMetadata,
                 disabled, countdowns, captureTimeouts, capturedImage,
                 recognitionAttempts, processing, statusText, unloaded>>
  /\ cancelled' = {k \in CountdownSlots : countdowns[k] # Cleared}
  /\ UNCHANGED attendanceCounted
  /\ UNCHANGED exceptDemo

\* Key "a" with the check button enabled: checkAttendance() finds an image
\* captured (the button is disabled whenever the image is cleared, lines
\* 308-310 and 316-318), counts the attempt and awaits
\* simulateProcessing(2000) (lines 124-128, 277-288).
CheckAttendance ==
  /\ ~unloaded
  /\ ~disabled.check
  /\ capturedImage
  /\ Len(processing) < MaxProcessing
  /\ recognitionAttempts' = recognitionAttempts + 1
  /\ processing' = Append(processing, recognitionAttempts + 1)
  /\ UNCHANGED <<videoStream, mediaTracks, starting, loadingMetadata,
                 disabled, isScanning, countdowns, captureTimeouts,
                 capturedImage, statusText, unloaded>>
  /\ UNCHANGED demoHist
  /\ UNCHANGED exceptDemo

\* Lines 288-322: the wait of the oldest invocation ends (the timeouts of
\* simulateProcessing have one duration and fire in the order they were
\* set); the attempt is recognized or not.
ProcessingDone(random) ==
  /\ ~unloaded
  /\ Len(processing) > 0
  /\ processing' = Tail(processing)
  /\ IF random < SuccessRate(recognitionAttempts)
     THEN /\ statusText' = "recognized"
          /\ capturedImage' = FALSE
          /\ recognitionAttempts' = 0
          /\ disabled' = ButtonStates(videoStream, FALSE, isScanning)
     ELSE /\ statusText' = "notRecognized"
          /\ IF recognitionAttempts >= MAX_ATTEMPTS
             THEN /\ capturedImage' = FALSE
                  /\ recognitionAttempts' = 0
                  /\ disabled' = ButtonStates(videoStream, FALSE, isScanning)
             ELSE UNCHANGED <<capturedImage, recognitionAttempts, disabled>>
  /\ UNCHANGED <<videoStream, mediaTracks, starting, loadingMetadata,
                 isScanning, countdowns, captureTimeouts, unloaded>>
  /\ attendanceCounted' = IF random < SuccessRate(recognitionAttempts)
                          THEN attendanceCounted + 1 ELSE attendanceCounted
  /\ UNCHANGED cancelled
  /\ UNCHANGED exceptDemo

\* Lines 555-567: visibilitychange.
VisibilityChange(documentHidden) ==
  /\ ~unloaded
  /\ videoStream # 0
  /\ mediaTracks' = EnableTracks(mediaTracks, videoStream, ~documentHidden)
  /\ UNCHANGED <<videoStream, starting, loadingMetadata, disabled, isScanning,
                 countdowns, captureTimeouts, capturedImage,
                 recognitionAttempts, processing, statusText, unloaded>>
  /\ UNCHANGED demoHist
  /\ UNCHANGED exceptDemo

\* Lines 549-552 and 195-204: beforeunload calls stopCamera().
BeforeUnload ==
  /\ ~unloaded
  /\ unloaded' = TRUE
  /\ IF videoStream # 0
     THEN /\ mediaTracks' = StopTracks(mediaTracks, videoStream)
          /\ videoStream' = 0
          /\ disabled' = ButtonStates(0, capturedImage, isScanning)
     ELSE UNCHANGED <<mediaTracks, videoStream, disabled>>
  /\ UNCHANGED <<starting, loadingMetadata, isScanning, countdowns,
                 captureTimeouts, capturedImage, recognitionAttempts,
                 processing, statusText>>
  /\ UNCHANGED demoHist
  /\ UNCHANGED exceptDemo

NextDemo ==
  \/ StartCamera
  \/ StartCameraFails
  \/ VideoStreamAcquired
  \/ OnLoadedMetadata
  \/ CaptureImage
  \/ \E k \in CountdownSlots : CountdownTick(k)
  \/ CaptureTimeout
  \/ CancelScanning
  \/ CheckAttendance
  \/ \E random \in Randoms : ProcessingDone(random)
  \/ \E documentHidden \in BOOLEAN : VisibilityChange(documentHidden)
  \/ BeforeUnload

SpecDemo == Init /\ [][NextDemo]_vars

(***************************************************************************)
(* AttendanceSystem: initialize, startCamera, stop, and the page events    *)
(***************************************************************************)
\* Key "i" while not active, or the start button: initializeSystem() calls
\* initialize(), whose startCamera() awaits getUserMedia (README lines
\* 447-449, 460-469; part_001 lines 20-31, 46-57).
InitializeSystem(i) ==
  /\ ~closed
  /\ ~isActive
  /\ initializing[i] = "idle"
  /\ \A j \in InitSlots : j < i => initializing[j] # "idle"
  /\ Len(streamTracks)
       + Cardinality({j \in InitSlots : initializing[j] = "getUserMedia"})
       < MaxAcquired
  /\ initializing' = [initializing EXCEPT ![i] = "getUserMedia"]
  /\ UNCHANGED <<stream, streamTracks, onloadedmetadata, metadataLoading,
                 detectionInterval, hidden, closed>>
  /\ UNCHANGED <<isActive, sessionAccepted, exceptCam>>

\* getUserMedia rejects: startCamera and initialize throw (lines 68-70, 40-43).
GetUserMediaFails(i) ==
  /\ ~closed
  /\ initializing[i] = "getUserMedia"
  /\ initializing' = [initializing EXCEPT ![i] = "idle"]
  /\ UNCHANGED <<stream, streamTracks, onloadedmetadata, metadataLoading,
                 detectionInterval, hidden, closed>>
  /\ UNCHANGED <<isActive, sessionAccepted, exceptCam>>

\* Lines 57-67: getUserMedia resolves; the stream is assigned and shown and
\* the handlers of videoElement are set to settle this invocation's promise.
StreamAcquired(i) ==
  /\ ~closed
  /\ initializing[i] = "getUserMedia"
  /\ streamTracks' = Append(streamTracks, "running")
  /\ stream' = Len(streamTracks) + 1
  /\ metadataLoading' = TRUE
  /\ onloadedmetadata' = i
  /\ initializing' = [initializing EXCEPT ![i] = "loadedmetadata"]
  /\ UNCHANGED <<detectionInterval, hidden, closed>>
  /\ UNCHANGED <<isActive, sessionAccepted, exceptCam>>

\* Lines 61-65 and 33-39: loadedmetadata resolves the promise of startCamera;
\* initialize starts the detection loop and sets isActive.
LoadedMetadata ==
  /\ ~closed
  /\ metadataLoading
  /\ metadataLoading' = FALSE
  /\ IF initializing[onloadedmetadata] = "loadedmetadata"
     THEN /\ initializing' = [initializing EXCEPT ![onloadedmetadata] = "idle"]
          /\ detectionInterval' = "running"
          /\ isActive' = TRUE
          /\ sessionAccepted' = FALSE
     ELSE UNCHANGED <<initializing, detectionInterval, isActive, sessionAccepted>>
  /\ UNCHANGED <<stream, streamTracks, onloadedmetadata, hidden, closed>>
  /\ UNCHANGED exceptCam

\* Lines 66-70 and 40-43: videoElement.onerror rejects the promise; startCamera
\* and initialize throw with the stream acquired.
VideoError ==
  /\ ~closed
  /\ metadataLoading
  /\ metadataLoading' = FALSE
  /\ IF initializing[onloadedmetadata] = "loadedmetadata"
     THEN initializing' = [initializing EXCEPT ![onloadedmetadata] = "idle"]
     ELSE UNCHANGED initializing
  /\ UNCHANGED <<stream, streamTracks, onloadedmetadata, detectionInterval,
                 hidden, closed>>
  /\ UNCHANGED <<isActive, sessionAccepted, exceptCam>>

\* stop() lines 340-357: what it does to the session and the camera.
StopCamera ==
  /\ isActive' = FALSE
  /\ sessionAccepted' = FALSE
  /\ detectionInterval' = "null"
  /\ streamTracks' = StopStream(streamTracks, stream)
  /\ stream' = 0
  /\ metadataLoading' = FALSE

\* Key "s" while active, or the stop button: stopSystem() (README lines
\* 453-455, 492-497).
StopSystem ==
  /\ ~closed
  /\ isActive
  /\ StopCamera
  /\ UNCHANGED <<initializing, onloadedmetadata, hidden, closed>>
  /\ UNCHANGED exceptCam

\* The tab is hidden: pauseSystem() (README lines 434-436, 516-523).
PauseSystem ==
  /\ ~closed
  /\ ~hidden
  /\ hidden' = TRUE
  /\ detectionInterval' =
       IF isActive /\ detectionInterval # "null" THEN "cleared"
       ELSE detectionInterval
  /\ UNCHANGED <<stream, streamTracks, initializing, onloadedmetadata,
                 metadataLoading, closed>>
  /\ UNCHANGED <<isActive, sessionAccepted, exceptCam>>

\* The tab is shown again: resumeSystem() (README lines 437-439, 525-530).
ResumeSystem ==
  /\ ~closed
  /\ hidden
  /\ hidden' = FALSE
  /\ detectionInterval' = IF isActive THEN "running" ELSE detectionInterval
  /\ UNCHANGED <<stream, streamTracks, initializing, onloadedmetadata,
                 metadataLoading, closed>>
  /\ UNCHANGED <<isActive, sessionAccepted, exceptCam>>

\* beforeunload: cleanup() stops the system if it is active (README lines
\* 430, 532-546).
Cleanup ==
  /\ ~closed
  /\ closed' = TRUE
  /\ IF isActive
     THEN StopCamera
     ELSE UNCHANGED <<isActive, sessionAccepted, detectionInterval,
                      streamTracks, stream, metadataLoading>>
  /\ UNCHANGED <<initializing, onloadedmetadata, hidden>>
  /\ UNCHANGED exceptCam

NextCamera ==
  \/ \E i \in InitSlots : InitializeSystem(i)
  \/ \E i \in InitSlots : GetUserMediaFails(i)
  \/ \E i \in InitSlots : StreamAcquired(i)
  \/ LoadedMetadata
  \/ VideoError
  \/ StopSystem
  \/ PauseSystem
  \/ ResumeSystem
  \/ Cleanup

SpecCamera == Init /\ [][NextCamera]_vars

(***************************************************************************)
(* The database manager: the operations the application reaches            *)
(***************************************************************************)
\* The production manager awaits IndexedDB requests: other handlers run
\* between a request and the code after its await.  The mock manager's
\* promises are settled when they are made: an invocation runs through its
\* awaits before any other handler starts.
Production == manager = "DatabaseManager"

\* completeEnrollment, part_000 lines 149-163, on the production manager:
\* db.getAllUsers() resolves and the email is compared with the rows read;
\* it is in none, db.addUser is awaited.
EmailChecked(o, email) ==
  /\ Production
  /\ dbOps[o].pc = "idle"
  /\ \A b \in DbSlots : b < o => dbOps[b].pc # "idle"
  /\ nextUserId <= MaxRows
  /\ ~EmailExists(dbUsers, email)
  /\ dbOps' = [dbOps EXCEPT ![o] = [NoDbOp EXCEPT !.pc = "addUser", !.email = email]]
  /\ UNCHANGED <<manager, dbUsers, nextUserId, dbFaceDescriptors,
                 nextFaceDescriptorId, dbAttendance, nextAttendanceId, recordedFor>>
  /\ UNCHANGED exceptSto

\* completeEnrollment, part_000 lines 161-163 and 190-195, on either
\* manager: the email is in the store, the error is caught, false returned.
EmailRefused(email) ==
  /\ EmailExists(dbUsers, email)
  /\ UNCHANGED stoVars
  /\ UNCHANGED exceptSto

\* A users store that accepts a row whatever its email.
UserStoredUnindexed(o) ==
  /\ Production
  /\ dbOps[o].pc = "addUser"
  /\ dbUsers' = PutUser(dbUsers, nextUserId, NewUser(dbOps[o].email))
  /\ nextUserId' = nextUserId + 1
  /\ dbOps' = [dbOps EXCEPT ![o] = NoDbOp]
  /\ UNCHANGED <<manager, dbFaceDescriptors, nextFaceDescriptorId, dbAttendance,
                 nextAttendanceId, recordedFor>>
  /\ UNCHANGED exceptSto

\* DatabaseManager.addUser, lines 84-110: store.add(user) is carried out.
\* The unique index on email (line 46) fails the request when another row
\* holds the email; the error reaches completeEnrollment, which returns false.
UserStored(o) ==
  /\ Production
  /\ dbOps[o].pc = "addUser"
  /\ IF ConstraintError(dbUsers, nextUserId, dbOps[o].email)
     THEN UNCHANGED <<dbUsers, nextUserId>>
     ELSE /\ dbUsers' = PutUser(dbUsers, nextUserId, NewUser(dbOps[o].email))
          /\ nextUserId' = nextUserId + 1
  /\ dbOps' = [dbOps EXCEPT ![o] = NoDbOp]
  /\ UNCHANGED <<manager, dbFaceDescriptors, nextFaceDescriptorId, dbAttendance,
                 nextAttendanceId, recordedFor>>
  /\ UNCHANGED exceptSto

\* completeEnrollment on the mock manager: the check of part_000 line 161
\* and MockDatabaseManager.addUser, lines 450-463, in one run.
MockUserAdded(email) ==
  /\ ~Production
  /\ nextUserId <= MaxRows
  /\ ~EmailExists(dbUsers, email)
  /\ dbUsers' = PutUser(dbUsers, nextUserId, NewUser(email))
  /\ nextUserId' = nextUserId + 1
  /\ UNCHANGED <<manager, dbFaceDescriptors, nextFaceDescriptorId, dbAttendance,
                 nextAttendanceId, dbOps, recordedFor>>
  /\ UNCHANGED exceptSto

\* DatabaseManager.updateUser, lines 138-147: getUser(id) resolves with the
\* row, the updated row is made from it and store.put is awaited; or there
\* is no row and "User not found" is thrown.
UpdateUserRead(o, id) ==
  /\ Production
  /\ dbOps[o].pc = "idle"
  /\ \A b \in DbSlots : b < o => dbOps[b].pc # "idle"
  /\ id < nextUserId
  /\ IF id \in DOMAIN dbUsers
     THEN dbOps' = [dbOps EXCEPT ![o] = [NoDbOp EXCEPT !.pc = "put", !.id = id,
                                                     !.row = UpdatedUser(dbUsers[id])]]
     ELSE UNCHANGED dbOps
  /\ UNCHANGED <<manager, dbUsers, nextUserId, dbFaceDescriptors,
                 nextFaceDescriptorId, dbAttendance, nextAttendanceId, recordedFor>>
  /\ UNCHANGED exceptSto

\* DatabaseManager.updateUser, lines 149-155: store.put(updatedUser) writes
\* the whole row under its key, unless the unique index fails the request.
UpdateUserPut(o) ==
  /\ dbOps[o].pc = "put"
  /\ IF ConstraintError(dbUsers, dbOps[o].id, dbOps[o].row.email)
     THEN UNCHANGED dbUsers
     ELSE dbUsers' = PutUser(dbUsers, dbOps[o].id, dbOps[o].row)
  /\ dbOps' = [dbOps EXCEPT ![o] = NoDbOp]
  /\ UNCHANGED <<manager, nextUserId, dbFaceDescriptors, nextFaceDescriptorId,
                 dbAttendance, nextAttendanceId, recordedFor>>
  /\ UNCHANGED exceptSto

\* MockDatabaseManager.updateUser, lines 473-485: the row is replaced in
\* place where it is found.
MockUpdateUser(id) ==
  /\ ~Production
  /\ id \in DOMAIN dbUsers
  /\ dbUsers' = PutUser(dbUsers, id, UpdatedUser(dbUsers[id]))
  /\ UNCHANGED <<manager, nextUserId, dbFaceDescriptors, nextFaceDescriptorId,
                 dbAttendance, nextAttendanceId, dbOps, recordedFor>>
  /\ UNCHANGED exceptSto

\* DatabaseManager.deleteUser, lines 168-175: getUser(id) resolves with the
\* row and the delete of the row is awaited.
DeleteUserRead(o, id) ==
  /\ Production
  /\ dbOps[o].pc = "idle"
  /\ \A b \in DbSlots : b < o => dbOps[b].pc # "idle"
  /\ id \in DOMAIN dbUsers
  /\ dbOps' = [dbOps EXCEPT ![o] = [NoDbOp EXCEPT !.pc = "users.delete", !.id = id]]
  /\ UNCHANGED <<manager, dbUsers, nextUserId, dbFaceDescriptors,
                 nextFaceDescriptorId, dbAttendance, nextAttendanceId, recordedFor>>
  /\ UNCHANGED exceptSto

\* DatabaseManager.deleteUser, lines 174-181: the row is deleted; the
\* transaction on faceDescriptors is opened.
UsersRowDeleted(o) ==
  /\ dbOps[o].pc = "users.delete"
  /\ dbUsers' = RemoveUser(dbUsers, dbOps[o].id)
  /\ dbOps' = [dbOps EXCEPT ![o].pc = "faceDescriptors.delete"]
  /\ UNCHANGED <<manager, nextUserId, dbFaceDescriptors, nextFaceDescriptorId,
                 dbAttendance, nextAttendanceId, recordedFor>>
  /\ UNCHANGED exceptSto

\* DatabaseManager.deleteUser, lines 177-189: in one transaction the
\* descriptors of the user are read and deleted; true is returned.  The
\* attendance store is not opened.
FaceRowsDeleted(o) ==
  /\ dbOps[o].pc = "faceDescriptors.delete"
  /\ dbFaceDescriptors' = WithoutUser(dbFaceDescriptors, dbOps[o].id)
  /\ dbOps' = [dbOps EXCEPT ![o] = NoDbOp]
  /\ UNCHANGED <<manager, dbUsers, nextUserId, nextFaceDescriptorId,
                 dbAttendance, nextAttendanceId, recordedFor>>
  /\ UNCHANGED exceptSto

\* MockDatabaseManager.deleteUser, lines 487-497: the row, its descriptors
\* and its attendance records are removed.
MockDeleteUser(id) ==
  /\ ~Production
  /\ id \in DOMAIN dbUsers
  /\ dbUsers' = RemoveUser(dbUsers, id)
  /\ dbFaceDescriptors' = WithoutUser(dbFaceDescriptors, id)
  /\ dbAttendance' = WithoutUser(dbAttendance, id)
  /\ UNCHANGED <<manager, nextUserId, nextFaceDescriptorId, nextAttendanceId,
                 dbOps, recordedFor>>
  /\ UNCHANGED exceptSto

\* addFaceDescriptor, lines 196-220 and 499-510, for an id the store has
\* issued: the row is added under a new key.
AddFaceDescriptor(userId) ==
  /\ userId < nextUserId
  /\ nextFaceDescriptorId <= MaxFaceRows
  /\ dbFaceDescriptors' =
       dbFaceDescriptors \cup {[id |-> nextFaceDescriptorId, userId |-> userId]}
  /\ nextFaceDescriptorId' = nextFaceDescriptorId + 1
  /\ UNCHANGED <<manager, dbUsers, nextUserId, dbAttendance, nextAttendanceId,
                 dbOps, recordedFor>>
  /\ UNCHANGED exceptSto

\* addAttendanceRecord, lines 238-282 (one transaction on both stores) and
\* 519-546, for an id the store has issued: the record is added under a
\* new key; the user's row, when there is one, counts it.
AddAttendanceRecord(userId) ==
  /\ userId < nextUserId
  /\ nextAttendanceId <= MaxAttendance
  /\ dbAttendance' = dbAttendance \cup {[id |-> nextAttendanceId, userId |-> userId]}
  /\ nextAttendanceId' = nextAttendanceId + 1
  /\ IF userId \in DOMAIN dbUsers
     THEN /\ dbUsers' = [dbUsers EXCEPT ![userId].totalAttendance = @ + 1]
          /\ recordedFor' = [recordedFor EXCEPT ![userId] = @ + 1]
     ELSE UNCHANGED <<dbUsers, recordedFor>>
  /\ UNCHANGED <<manager, nextUserId, dbFaceDescriptors, nextFaceDescriptorId, dbOps>>
  /\ UNCHANGED exceptSto

NextStore ==
  \/ \E o \in DbSlots, email \in Emails : EmailChecked(o, email)
  \/ \E email \in Emails : EmailRefused(email)
  \/ \E o \in DbSlots : UserStored(o)
  \/ \E email \in Emails : MockUserAdded(email)
  \/ \E o \in DbSlots, id \in RowIds : UpdateUserRead(o, id)
  \/ \E o \in DbSlots : UpdateUserPut(o)
  \/ \E id \in RowIds : MockUpdateUser(id)
  \/ \E o \in DbSlots, id \in RowIds : DeleteUserRead(o, id)
  \/ \E o \in DbSlots : UsersRowDeleted(o)
  \/ \E o \in DbSlots : FaceRowsDeleted(o)
  \/ \E id \in RowIds : MockDeleteUser(id)
  \/ \E userId \in RowIds : AddFaceDescriptor(userId)
  \/ \E userId \in RowIds : AddAttendanceRecord(userId)

\* The page is loaded with either manager as `db` (part_002 lines 426, 629).
InitStore ==
  /\ Constructed
  /\ manager \in {"DatabaseManager", "MockDatabaseManager"}

SpecStore == InitStore /\ [][NextStore]_vars

\* The operations on the users store alone: enrollment, edit and deletion.
NextEmails ==
  \/ \E o \in DbSlots, email \in Emails : EmailChecked(o, email)
  \/ \E email \in Emails : EmailRefused(email)
  \/ \E o \in DbSlots : UserStored(o)
  \/ \E email \in Emails : MockUserAdded(email)
  \/ \E o \in DbSlots, id \in RowIds : UpdateUserRead(o, id)
  \/ \E o \in DbSlots : UpdateUserPut(o)
  \/ \E id \in RowIds : MockUpdateUser(id)
  \/ \E o \in DbSlots, id \in RowIds : DeleteUserRead(o, id)
  \/ \E o \in DbSlots : UsersRowDeleted(o)
  \/ \E o \in DbSlots : FaceRowsDeleted(o)
  \/ \E id \in RowIds : MockDeleteUser(id)

SpecEmails == InitStore /\ [][NextEmails]_vars

(***************************************************************************)
(* The demo app (part_003): camera flag, attendance, enrollment, users     *)
(***************************************************************************)
\* Whether demoUsers holds a row with this id (`demoUsers.find`, 643, 658).
DemoUserFound(id) == \E i \in 1..Len(demoUsers) : demoUsers[i].id = id

\* Whether demoUsers holds a row with this email (`demoUsers.some`, 483).
DemoEmailExists(email) ==
  \E i \in 1..Len(demoUsers) : demoUsers[i].email = email

\* initializeSystem, lines 146-181, once the stream is there and the video
\* has loaded: the flag is set.  The start button is disabled while the
\* system is active (line 305).
DemoInitializeSystem ==
  /\ ~isSystemActive
  /\ isSystemActive' = TRUE
  /\ UNCHANGED <<demoUsers, demoRecords, demoSamples, demoEnrolling,
                 demoCapturing>>
  /\ UNCHANGED exceptApp

\* stopSystem, lines 275-298.  The stop button is disabled while the system
\* is not active (line 307).
DemoStopSystem ==
  /\ isSystemActive
  /\ isSystemActive' = FALSE
  /\ UNCHANGED <<demoUsers, demoRecords, demoSamples, demoEnrolling,
                 demoCapturing>>
  /\ UNCHANGED exceptApp

\* captureAttendance, lines 220-231: past the guard on isSystemActive the
\* invocation waits 2 seconds; nothing keeps a second one from starting.
DemoCaptureAttendance ==
  /\ isSystemActive
  /\ demoCapturing < MaxDemoCapturing
  /\ demoCapturing' = demoCapturing + 1
  /\ UNCHANGED <<demoUsers, demoRecords, demoSamples, demoEnrolling,
                 isSystemActive>>
  /\ UNCHANGED exceptApp

\* captureAttendance, lines 233-272, after the wait: when the face is
\* recognized a row of demoUsers is drawn and a record pushed whose id is
\* the length of attendanceRecords plus one (line 243).  With no users the
\* drawn user is undefined, line 244 throws and the catch block only
\* reports.
DemoAttendanceCaptured(isRecognized, index) ==
  /\ demoCapturing > 0
  /\ demoCapturing' = demoCapturing - 1
  /\ IF isRecognized /\ index \in 1..Len(demoUsers)
       THEN /\ Len(demoRecords) < MaxDemoRecords
            /\ demoRecords' =
                 Append(demoRecords, [id |-> Len(demoRecords) + 1,
                                      userId |-> demoUsers[index].id])
       ELSE /\ ~isRecognized \/ demoUsers = <<>>
            /\ UNCHANGED demoRecords
  /\ UNCHANGED <<demoUsers, demoSamples, demoEnrolling, isSystemActive>>
  /\ UNCHANGED exceptApp

\* startEnrollment, lines 409-440, with a valid form and a granted camera.
DemoStartEnrollment ==
  /\ demoEnrolling' = TRUE
  /\ demoSamples' = 0
  /\ UNCHANGED <<demoUsers, demoRecords, demoCapturing, isSystemActive>>
  /\ UNCHANGED exceptApp

\* captureEnrollmentSample, lines 442-463.
DemoCaptureEnrollmentSample ==
  /\ demoEnrolling
  /\ demoSamples < demoRequiredSamples
  /\ demoSamples' = demoSamples + 1
  /\ UNCHANGED <<demoUsers, demoRecords, demoEnrolling, demoCapturing,
                 isSystemActive>>
  /\ UNCHANGED exceptApp

\* completeEnrollment, lines 465-508, with stopEnrollment, lines 510-523:
\* the new row's id is the length of demoUsers plus one (line 475); an
\* email that exists throws before the push and the catch block only
\* reports.
DemoCompleteEnrollment(email) ==
  /\ demoSamples >= demoRequiredSamples
  /\ IF DemoEmailExists(email)
       THEN UNCHANGED <<demoUsers, demoSamples, demoEnrolling>>
       ELSE /\ Len(demoUsers) < MaxDemoUsers
            /\ demoUsers' = Append(demoUsers, [id |-> Len(demoUsers) + 1,
                                               email |-> email])
            /\ demoEnrolling' = FALSE
            /\ demoSamples' = 0
  /\ UNCHANGED <<demoRecords, demoCapturing, isSystemActive>>
  /\ UNCHANGED exceptApp

\* deleteUser, lines 657-674, confirmed: every row of demoUsers with the id
\* and every record of the user go.
DemoDeleteUser(userId) ==
  /\ DemoUserFound(userId)
  /\ demoUsers' = SelectSeq(demoUsers, LAMBDA u : u.id # userId)
  /\ demoRecords' = SelectSeq(demoRecords, LAMBDA r : r.userId # userId)
  /\ UNCHANGED <<demoSamples, demoEnrolling, demoCapturing, isSystemActive>>
  /\ UNCHANGED exceptApp

NextApp ==
  \/ DemoInitializeSystem
  \/ DemoStopSystem
  \/ DemoCaptureAttendance
  \/ \E isRecognized \in BOOLEAN, index \in 0..MaxDemoUsers :
       DemoAttendanceCaptured(isRecognized, index)
  \/ DemoStartEnrollment
  \/ DemoCaptureEnrollmentSample
  \/ \E email \in DemoEmails : DemoCompleteEnrollment(email)
  \/ \E userId \in 1..MaxDemoUsers : DemoDeleteUser(userId)

SpecApp == Init /\ [][NextApp]_vars

(***************************************************************************)
(* Properties                                                              *)
(***************************************************************************)
Abs(x) == IF x < 0 THEN -x ELSE x

\* A step in which a capture is denied by the cooldown gate.
Denied == toast'.kind = "wait" /\ toast' # toast

\* A step in which a capture passes the cooldown gate.
Passed == \E p \in Slots : pc[p] = "idle" /\ pc'[p] = "getAllUsers"

\* C1: any two attendance records written through db.addAttendanceRecord
\* are at least recognitionCooldown apart, under any interleaving of
\* captureAttendance invocations.
C1_RecordsCooldownApart ==
  \A i, j \in 1..Len(attendanceRecords) :
    i # j => Abs(attendanceRecords[i].timestamp - attendanceRecords[j].timestamp)
               >= recognitionCooldown

\* C2: at most one captureAttendance pipeline is in flight at any time.
C2_OnePipelineInFlight ==
  Cardinality({p \in Slots : InFlight(p)}) <= 1

\* C3: with the system active and detections present, a capture that starts
\* at clock is denied by the gate (no pipeline is entered, no record added)
\* only if the latest acceptance was recorded less than 3000 ms before, and
\* passes the gate only if no acceptance has happened yet or the latest one
\* was recorded at least 3000 ms before.
C3_GateDecision ==
  [][ /\ Denied => /\ lastAccept # 0
                   /\ clock - lastAccept < recognitionCooldown
                   /\ UNCHANGED <<pc, attendanceRecords>>
      /\ Passed => \/ lastAccept = 0
                   \/ clock - lastAccept >= recognitionCooldown ]_vars

\* C3 witness: a capture was denied 2999 ms after the accepted one started.
C3_Witness ==
  /\ toast.kind = "wait"
  /\ lastAccept # 0
  /\ clock - lastAccept = 2999

\* C4: the remaining wait reported on a denial is
\* (3000 - (now - lastRecognitionTime)) / 1000 rounded up to whole seconds:
\* it is 1, 2 or 3, and it is 1 when 2999 ms have elapsed.
C4_RemainingRoundedUp ==
  [][ Denied =>
        LET left == recognitionCooldown - (clock - lastRecognitionTime)
        IN  /\ toast'.remaining \in {1, 2, 3}
            /\ toast'.remaining * 1000 >= left
            /\ (toast'.remaining - 1) * 1000 < left
            /\ (clock - lastRecognitionTime = 2999 => toast'.remaining = 1) ]_vars

\* C4 witness: a denial after 2999 ms reports 1 second.
C4_Witness ==
  /\ toast = [kind |-> "wait", remaining |-> 1]
  /\ clock - lastRecognitionTime = 2999

\* C5: lastRecognitionTime changes only in a step in which a capture
\* accepts (returns true); denial, reject, empty result and error leave it
\* unchanged.
C5_OnlyAcceptRecordsSuccess ==
  [][ lastRecognitionTime' # lastRecognitionTime =>
        \E p \in Slots : /\ pc[p] = "addAttendanceRecord"
                         /\ pc'[p] = "idle"
                         /\ ret'[p] = "true" ]_vars

\* C5 witness: after an acceptance, a later capture ended in a reject, an
\* empty result or an error and the recorded instant is still the accepted one.
C5_Witness ==
  /\ toast.kind \in {"notRecognized", "notProcessed", "failed"}
  /\ lastAccept # 0
  /\ lastRecognitionTime = lastAccept

\* C6: the cooldown state is reset on session stop: a capture is never
\* denied on account of an acceptance made before the latest initialize().
C6_CooldownResetOnStop ==
  [][ Denied => sessionAccepted ]_vars

\* C7: every attendance record, stored or about to be stored, comes from a
\* recognition result with isMatch true and confidence >= recognitionThreshold.
C7_RecordOnlyEligible ==
  /\ \A i \in 1..Len(attendanceRecords) :
       /\ attendanceRecords[i].userId # NoUser
       /\ attendanceRecords[i].confidence >= recognitionThreshold
  /\ \A p \in Slots :
       pc[p] = "addAttendanceRecord" =>
         /\ bestMatch[p].isMatch
         /\ bestMatch[p].userId # NoUser
         /\ bestMatch[p].confidence >= recognitionThreshold

\* C7 witness: a record was written from a frame that also held a matched
\* face below the threshold.
C7_Witness ==
  /\ Len(attendanceRecords) > 0
  /\ \E i \in 1..Len(currentDetections) : currentDetections[i].dist = 45
  /\ users = UserIds /\ deleting = NoUser

\* C8: the accepted result is the eligible result of highest confidence and,
\* among eligible results of equal highest confidence, the first in
\* detection order.
C8_BestIsHighestFirst ==
  [][ \A p \in Slots :
        (pc[p] = "getAllUsers" /\ pc'[p] = "addAttendanceRecord") =>
          LET result(i) == RecognitionResult(currentDetections, i,
                                             labeledDescriptors, clock)
              eligible == {i \in 1..Len(currentDetections) : IsEligible(result(i))}
          IN  \E i \in eligible :
                /\ \A j \in eligible :
                     \/ result(j).confidence < result(i).confidence
                     \/ result(j).confidence = result(i).confidence /\ i <= j
                /\ bestMatch'[p] = result(i) ]_vars

\* C8 witness: two eligible faces of equal confidence and different
\* identities; the first detection is accepted.
C8_Witness ==
  \E p \in Slots :
    /\ pc[p] = "addAttendanceRecord"
    /\ Len(currentDetections) = 2
    /\ currentDetections[1].dist = currentDetections[2].dist
    /\ currentDetections[1].near # currentDetections[2].near
    /\ labeledDescriptors = GalleryOf(UserIds)
    /\ bestMatch[p].detection = 1

\* C9: a captureAttendance call that returned false has added no
\* attendance record.
C9_FalseMeansNoRecord ==
  \A p \in Slots : ret[p] = "false" => ~wrote[p]

\* C10: the number of accepted enrollment samples never exceeds
\* requiredSamples, also when captureEnrollmentSample calls overlap.
C10_SamplesAtMostRequired ==
  Len(enrollmentSamples) <= requiredSamples

\* A step in which completeEnrollment refuses for want of samples and tells so.
RefusedCompletion == enrollToast'.kind = "needMore" /\ enrollToast' # enrollToast

\* C11: completeEnrollment called with fewer than requiredSamples samples
\* fails: it reports the shortfall requiredSamples - (samples held), which is
\* 1 with 4 of 5, and changes nothing: no user is created, no descriptor is
\* stored, the sample list and isEnrolling stay as they were; and no
\* invocation goes on to the store with fewer than requiredSamples samples.
C11_RefusedCompletionChangesNothing ==
  [][ /\ RefusedCompletion =>
           /\ Len(enrollmentSamples) < requiredSamples
           /\ enrollToast'.count = requiredSamples - Len(enrollmentSamples)
           /\ (Len(enrollmentSamples) = 4 => enrollToast'.count = 1)
           /\ UNCHANGED <<enrolled, completing, enrollmentSamples, isEnrolling, sampling>>
      /\ \A c \in CompletingSlots :
           (~Completing(c) /\ Completing(c)') =>
             Len(enrollmentSamples) >= requiredSamples ]_vars

\* C11 witness: with a user already in the store and 4 samples held in a
\* session, completeEnrollment has reported that 1 more sample is needed.
C11_Witness ==
  /\ enrollToast = EnrollToast("needMore", 1)
  /\ Len(enrollmentSamples) = 4
  /\ isEnrolling
  /\ Len(enrolled) = 1

\* A step in which a captureEnrollmentSample that awaited the detector returns.
CaptureResolved == sampling' = sampling - 1

\* C12: captureEnrollmentSample rejects whenever the detector returns no
\* face or more than one face: it tells so and leaves the sample list and
\* the session state as they were.
C12_RejectsUnlessOneFace ==
  [][ (CaptureResolved /\ faces' # Undefined /\ faces'[1] # 1) =>
        /\ enrollToast'.kind = (IF faces'[1] = 0 THEN "noFace" ELSE "multipleFaces")
        /\ UNCHANGED <<enrollmentSamples, isEnrolling, autoComplete, completing, enrolled>>
    ]_vars

\* C12 witness: in a session that holds samples, a capture saw two faces, the
\* first of valid quality, and was rejected.
C12_Witness ==
  /\ enrollToast.kind = "multipleFaces"
  /\ faces = Some(2)
  /\ isEnrolling
  /\ Len(enrollmentSamples) >= 1

\* C13: every sample held in the enrollment sample list has a computed
\* quality of at least qualityThreshold.
C13_SamplesOfValidQuality ==
  \A i \in 1..Len(enrollmentSamples) :
    enrollmentSamples[i] >= Hundredths(qualityThreshold)

\* C13 witness: a sample of quality exactly 0.7 is held and a later face of
\* lower quality was rejected.
C13_Witness ==
  /\ Len(enrollmentSamples) >= 1
  /\ enrollmentSamples[1] = Hundredths(qualityThreshold)
  /\ enrollToast.kind = "lowQuality"

\* C15: whenever isEnrolling is false the sample list is empty: a
\* captureEnrollmentSample that awaited the detector when stopEnrollment ran
\* adds no sample afterwards.
C15_NotEnrollingMeansNoSamples ==
  ~isEnrolling => enrollmentSamples = <<>>

\* C16: every user created by a completeEnrollment that has returned has
\* exactly requiredSamples descriptors in the store and a gallery entry with
\* those requiredSamples descriptors, also when storing a descriptor fails midway.
C16_EnrolledUsersComplete ==
  \A u \in 1..Len(enrolled) :
    enrolled[u].resolved =>
      /\ enrolled[u].descriptors = requiredSamples
      /\ enrolled[u].gallery = requiredSamples

\* C14: whenever validateEnrollmentQuality rejects a detection because its
\* quality is below the threshold, the issue list it returns holds at least
\* one issue, for every detector score, box size, landmark presence and
\* expression scores.
C14_RejectionNamesAnIssue ==
  (WellFormed(probe) /\ probeValidation # Undefined) =>
    (IsLowQuality(probeValidation[1].quality) =>
       Len(probeValidation[1].issues) >= 1)

\* The detections of C17: score 1, box area at least the reference area,
\* landmarks present, neutral expression 1.
BestDetection(d) ==
  /\ WellFormed(d)
  /\ d.detection[1].score[1] = 100
  /\ d.detection[1].box[1].width * d.detection[1].box[1].height >= referenceArea
  /\ d.landmarks
  /\ d.expressions[1].neutral = 100

\* C17 as stated: for such a detection calculateFaceQuality returns 1.0.
C17_BestDetectionScoresOne ==
  (BestDetection(probe) /\ probeQuality # Undefined) =>
    probeQuality[1] = QualityOne

\* C17, amended: for every detection with detector confidence 1, a box of
\* area at least 40000, landmarks present and neutral expression 1,
\* calculateFaceQuality returns 0.96 (0.3 + 0.2 * 0.8 + 0.2 + 0.3).
C17_BestDetectionScores96 ==
  (BestDetection(probe) /\ probeQuality # Undefined) =>
    probeQuality[1] = Hundredths(96)

\* C17 witness: the quality of such a detection, of a box larger than the
\* reference area, has been computed.
C17_Witness ==
  /\ BestDetection(probe)
  /\ probe.detection[1].box[1].width * probe.detection[1].box[1].height > referenceArea
  /\ probeQuality # Undefined

\* C18: calculateFaceQuality never raises: it returns a number for every
\* detection, and exactly the fallback 0.5 for a detection without box (so
\* for one with no box, no score, no landmarks and no expressions); the
\* quality that validateEnrollmentQuality obtains from it is such a number too.
C18_QualityNeverRaises ==
  /\ probeQuality # Undefined =>
       /\ probeQuality[1] # TypeError
       /\ probeQuality[1] = NaN \/ probeQuality[1] \in 0..QualityOne
       /\ QualityThrows(probe) => probeQuality[1] = Hundredths(50)
  /\ probeValidation # Undefined =>
       /\ probeValidation[1].quality # TypeError
       /\ QualityThrows(probe) => probeValidation[1].quality = Hundredths(50)

\* C18 witness: the quality of the detection without any field was computed,
\* by itself and within the validation, and is 0.5.
C18_Witness ==
  /\ probe = NoFields
  /\ probeQuality = Some(Hundredths(50))
  /\ probeValidation # Undefined

\* A step in which recognizeFaces has returned to captureAttendance.
Recognized(p) ==
  /\ pc[p] = "getAllUsers"
  /\ \/ pc'[p] = "addAttendanceRecord"
     \/ pc'[p] = "idle" /\ toast'.kind \in {"notProcessed", "notRecognized"}

\* C19: every quality returned by calculateFaceQuality for a detection of the
\* detector, and every confidence 1 - distance put into a recognition
\* result, lies in [0, 1].
C19_ScoresInUnitInterval ==
  [][ \A p \in Slots :
        Recognized(p) =>
          LET results == RecognizeFaces(currentDetections, labeledDescriptors, clock)
          IN  /\ \A i \in 1..Len(results) : results[i].confidence \in 0..100
              /\ \A d \in ProbeDetections :
                   WellFormed(d) => calculateFaceQuality(d) \in 0..QualityOne ]_vars

\* C20: with an empty gallery, recognition returns for every detection one
\* result with isMatch false, raises no error, and captureAttendance records
\* no attendance.
C20_EmptyGalleryAllUnknown ==
  [][ \A p \in Slots :
        (Recognized(p) /\ Len(labeledDescriptors) = 0) =>
          LET results == RecognizeFaces(currentDetections, labeledDescriptors, clock)
          IN  /\ Len(results) = Len(currentDetections)
              /\ \A i \in 1..Len(results) : ~results[i].isMatch
              /\ pc'[p] = "idle" /\ ret'[p] = "false"
              /\ UNCHANGED attendanceRecords ]_vars

C22_MatcherFromCompleteRebuild ==
  [][faceMatcher' # faceMatcher /\ faceMatcher' # Undefined =>
       faceMatcher'[1] = Rebuilt(loaded.descriptors, loaded.users)]_vars

\* A matcher is built, while another rebuild is under way, from a gallery of
\* two entries that a rebuild after the page load has left.
C22_Witness ==
  /\ faceMatcher # Undefined
  /\ Len(faceMatcher[1]) = 2
  /\ \E o \in OpSlots : ops[o].pc = "getAllUsers"

\* C23: once deleteUser has removed a user from the store, a captureAttendance
\* that starts afterwards does not match that user and does not go on to
\* record attendance for that user id: the user an invocation matches was in
\* the store when the invocation started.
C23_DeletedUserNeverMatched ==
  \A p \in Slots :
    pc[p] = "addAttendanceRecord" => bestMatch[p].userId \in startUsers[p]

\* C24: while no enrollFace and no deleteUser is in flight, the gallery holds
\* for each user of the store with stored descriptors exactly these
\* descriptors, and nothing else.
C24_GalleryMirrorsStore ==
  (\A o \in OpSlots : ops[o].pc = "idle") =>
    labeledFaceDescriptors = Rebuilt(faceDescriptors, userRows)

\* C25: recognitionAttempts never exceeds MAX_ATTEMPTS: after three attempts
\* on a captured image no fourth is made without a reset.
C25_AttemptsAtMostMaximum == recognitionAttempts <= MAX_ATTEMPTS

\* C26: a capture starts the counter at 0; each checkAttendance with a
\* captured image raises it by 1; the counter is reset and the image cleared
\* exactly when an attempt is recognized or the attempt that fails is the
\* third; a failure of an earlier attempt keeps the counter and the image.
C26_CounterFollowsTheCycle ==
  [][ /\ (~isScanning /\ isScanning') => recognitionAttempts' = 0
      /\ Len(processing') > Len(processing) =>
           recognitionAttempts' = recognitionAttempts + 1
      /\ Len(processing') < Len(processing) =>
           IF statusText' = "recognized" \/ Head(processing) = MAX_ATTEMPTS
           THEN recognitionAttempts' = 0 /\ ~capturedImage'
           ELSE UNCHANGED <<recognitionAttempts, capturedImage>> ]_vars

\* The faces of a frame that a gallery and the threshold accept: the identity
\* the face is nearest to is in the gallery, at a distance below the
\* threshold and with a confidence of the threshold at least.
AcceptableFaces(detections, gallery) ==
  {i \in 1..Len(detections) :
     /\ \E k \in 1..Len(gallery) : gallery[k] = toString(detections[i].near)
     /\ detections[i].dist < recognitionThreshold
     /\ 100 - detections[i].dist >= recognitionThreshold}

\* The invocation p of captureAttendance takes its decision.
Decides(p) ==
  /\ pc[p] = "getAllUsers"
  /\ pc'[p] \in {"addAttendanceRecord", "idle"}

\* C27: the decision of captureAttendance is a function of the detections,
\* the gallery and the threshold alone: it accepts exactly when one of the
\* faces is acceptable, and then the identity is that of the first
\* acceptable face of least distance, whatever earlier attempts have done.
C27_DecisionFromInputsAlone ==
  [][ \A p \in Slots :
        Decides(p) =>
          LET acceptable == AcceptableFaces(currentDetections, labeledDescriptors)
          IN  /\ pc'[p] = "addAttendanceRecord" <=> acceptable # {}
              /\ pc'[p] = "addAttendanceRecord" =>
                   \E i \in acceptable :
                     /\ bestMatch'[p].userId = currentDetections[i].near
                     /\ \A j \in acceptable :
                          \/ currentDetections[i].dist < currentDetections[j].dist
                          \/ /\ currentDetections[i].dist = currentDetections[j].dist
                             /\ i <= j ]_vars

\* An invocation accepts after the attempt before it was not recognized.
C27_Witness ==
  \E p \in Slots :
    /\ pc[p] = "addAttendanceRecord"
    /\ toast.kind = "notRecognized"

\* C28: after a stop of the session, after the tab is hidden and after the
\* teardown of the page, no track of the session's stream is running.
C28_StreamReleased ==
  [][ (\/ isActive /\ ~isActive'
       \/ ~hidden /\ hidden'
       \/ ~closed /\ closed') =>
        (stream # 0 => streamTracks'[stream] = "stopped") ]_vars

\* C29: at most one stream with a running track exists, and none exists
\* while isActive is false and no initialize() is in flight.
C29_OneStreamOnlyWhileActive ==
  /\ Cardinality({id \in 1..Len(streamTracks) : streamTracks[id] = "running"}) <= 1
  /\ (~isActive /\ \A i \in InitSlots : initializing[i] = "idle") =>
       \A id \in 1..Len(streamTracks) : streamTracks[id] # "running"

\* C30: at most one execution of detectAndDisplayFaces is in flight: an
\* interval tick starts no detection while that of an earlier tick has not
\* completed.
C30_OneDetectionInFlight == detecting <= 1



\* C31: a record the attendance store holds is still held, unchanged,
\* after every step of every store operation, on either manager.
C31_AttendanceAppendOnly == [][dbAttendance \subseteq dbAttendance']_vars

\* C32: once the operations on the manager have returned, every attendance
\* record and every face descriptor names a user that has a row.
C32_NoOrphanedRows ==
  (\A o \in DbSlots : dbOps[o].pc = "idle") =>
    \A r \in dbAttendance \cup dbFaceDescriptors : r.userId \in DOMAIN dbUsers

\* C35: the totalAttendance of every row equals the number of
\* addAttendanceRecord calls completed for its user.
C35_TotalCountsEveryRecord ==
  \A id \in DOMAIN dbUsers : dbUsers[id].totalAttendance = recordedFor[id]

\* C36: no two rows of the users store hold the same email, whatever the
\* interleaving of the invocations of completeEnrollment.
C36_EmailsDistinct ==
  \A a \in DOMAIN dbUsers, b \in DOMAIN dbUsers :
    a # b => dbUsers[a].email # dbUsers[b].email

\* Two invocations have passed the check with one email: the row of the
\* first is stored, the second awaits its addUser.
C36_Witness ==
  \E o \in DbSlots :
    /\ dbOps[o].pc = "addUser"
    /\ EmailExists(dbUsers, dbOps[o].email)

\* C33: an enrollFace that awaits db.addFaceDescriptor holds a descriptor of
\* 128 numbers; an enrollFace that has refused its descriptor changes
\* neither the faceDescriptors store nor the gallery, and its next step after
\* the log entry is the error with its caller.
C33_InvalidDescriptorRejected ==
  [][\A o \in OpSlots :
       /\ ops'[o].pc = "addFaceDescriptor" =>
            /\ ops'[o].faceDescriptor # Undefined
            /\ ops'[o].faceDescriptor[1] = descriptorLength
       /\ (ops'[o] # ops[o] /\ "logActivity" \in {ops[o].pc, ops'[o].pc}) =>
            /\ ops'[o].pc \in {"logActivity", "thrown"}
            /\ UNCHANGED <<faceDescriptors, nextDescriptorId, labeledFaceDescriptors>>
    ]_vars

\* An enrollFace has thrown "Invalid face descriptor" to its caller.
C33_Witness == \E o \in OpSlots : ops[o].pc = "thrown"

\* C34: with 0.6 as the matcher's distance cutoff and as the confidence
\* cutoff, every recognition result is labelled a match exactly when its
\* confidence 1 - distance is at least recognitionThreshold.
C34_CutoffsEquivalent ==
  [][ \A p \in Slots :
        Recognized(p) =>
          LET results == RecognizeFaces(currentDetections, labeledDescriptors, clock)
          IN  \A i \in 1..Len(results) :
                results[i].isMatch <=> results[i].confidence >= recognitionThreshold
    ]_vars

\* C37: at most one countdownInterval is ticking, and an interval that ran
\* when cancelScanning acted ends without counting down to its capture.
C37_CancelledCountdownEnds ==
  [][ /\ Cardinality({k \in CountdownSlots : countdowns'[k] # Cleared}) <= 1
      /\ \A k \in cancelled :
           countdowns'[k] # countdowns[k] =>
             countdowns'[k] = Cleared /\ captureTimeouts' = captureTimeouts
    ]_vars

\* C38: after a performCapture, attendanceCount is incremented once at most
\* before the next performCapture.
C38_OneAttendancePerImage == attendanceCounted <= 1

\* C39: in the demo store the ids of the users are pairwise distinct and so
\* are the ids of the attendance records, whatever sequence of
\* completeEnrollment, captureAttendance and deleteUser has run.
C39_DemoIdsDistinct ==
  /\ \A i, j \in 1..Len(demoUsers) :
       demoUsers[i].id = demoUsers[j].id => i = j
  /\ \A i, j \in 1..Len(demoRecords) :
       demoRecords[i].id = demoRecords[j].id => i = j

\* C40: detections are those of the current active session: once stop() has
\* run, no detection result is written to currentDetections any more, so
\* every step that changes currentDetections is taken while the system is
\* active.
C40_DetectionsOfActiveSession ==
  [][currentDetections' # currentDetections => isActive]_vars

TypeOK ==
  /\ clock \in EpochStart..(EpochStart + MaxElapsed)
  /\ isActive \in BOOLEAN
  /\ \A p \in Slots : pc[p] \in {"idle", "getAllUsers", "addAttendanceRecord", "logActivity"}

====
